---- MODULE Spec2Model ----
(***************************************************************************)
(* A model of idbutils: the object-relational layer (DbObject), the        *)
(* key-value ledger built on it (KeyValueObject / DbAttributesObject) and  *)
(* the database handle (DB) that runs the version checks at construction.  *)
(*                                                                         *)
(* Python values are tagged records so that values of different Python     *)
(* types can be compared; strings are sequences of one-character strings   *)
(* so that str() and int() are computed digit by digit.                    *)
(***************************************************************************)
EXTENDS Integers, Sequences, FiniteSets, TLC

(***************************************************************************)
(* Bounds of the model.                                                    *)
(***************************************************************************)
NumVersions == 2      \* how many distinct version numbers the code may declare
MaxFiles == 3         \* a bulk import has at most MaxFiles files
MaxDepth == 3         \* directory trees have at most MaxDepth levels
MaxTime == 1          \* timestamps are 0..MaxTime
MaxId == 1            \* activity_id and record values are 0..MaxId
MaxCols == 3          \* a declared table has 1..MaxCols columns
MaxStamp == 2         \* the timestamps of rows are 0..MaxStamp ticks

\* Version numbers start at 9 so that one- and two-digit strings both occur.
Versions == 9..(8 + NumVersions)
Times == 0..MaxTime

(***************************************************************************)
(* Python values.                                                          *)
(***************************************************************************)
PyNone == [tag |-> "None"]
PyInt(n) == [tag |-> "int", val |-> n]
PyStr(s) == [tag |-> "str", chars |-> s]
\* A string that the model never takes apart (keys, column names) is kept whole.
PyText(s) == [tag |-> "str", text |-> s]
PyBool(b) == [tag |-> "bool", b |-> b]
PyDateTime(t) == [tag |-> "datetime", t |-> t]
PyFloat(whole, frac) == [tag |-> "float", whole |-> whole, frac |-> frac]
PyTime(h, m, s) == [tag |-> "time", h |-> h, m |-> m, s |-> s]

\* The outcome of a call: what it returned, or the exception it raised.
NoError == "none"
Returned(v) == [raised |-> NoError, ret |-> v]
Raised(e) == [raised |-> e, ret |-> PyNone]

DigitChars == <<"0", "1", "2", "3", "4", "5", "6", "7", "8", "9">>
IsDigit(c) == \E i \in 1..10 : DigitChars[i] = c
DigitVal(c) == (CHOOSE i \in 1..10 : DigitChars[i] = c) - 1

RECURSIVE NatToChars(_)
NatToChars(n) ==
    IF n < 10 THEN <<DigitChars[n + 1]>>
    ELSE NatToChars(n \div 10) \o <<DigitChars[(n % 10) + 1]>>

\* str(value) as key_value.py applies it to the value of a pair.
PyStrOf(v) ==
    CASE v.tag = "int" -> PyStr(IF v.val < 0 THEN <<"-">> \o NatToChars(-v.val)
                                             ELSE NatToChars(v.val))
      [] v.tag = "str" -> v
      [] v.tag = "None" -> PyStr(<<"N", "o", "n", "e">>)

AllDigits(s) == Len(s) > 0 /\ \A i \in 1..Len(s) : IsDigit(s[i])

RECURSIVE DigitsToNat(_)
DigitsToNat(s) ==
    IF Len(s) = 0 THEN 0
    ELSE 10 * DigitsToNat(SubSeq(s, 1, Len(s) - 1)) + DigitVal(s[Len(s)])

HasSign(s) == Len(s) > 0 /\ s[1] \in {"+", "-"}
Unsigned(s) == IF HasSign(s) THEN Tail(s) ELSE s
Signed(s, n) == IF HasSign(s) /\ s[1] = "-" THEN -n ELSE n

\* int(string): an optional sign followed by decimal digits, else ValueError.
PyIntOf(s) ==
    IF AllDigits(Unsigned(s))
    THEN Returned(PyInt(Signed(s, DigitsToNat(Unsigned(s)))))
    ELSE Raised("ValueError")

\* Position of the first occurrence of c in s, or 0.
IndexOf(s, c) ==
    IF \E i \in 1..Len(s) : s[i] = c
    THEN CHOOSE i \in 1..Len(s) : s[i] = c /\ \A j \in 1..(i - 1) : s[j] # c
    ELSE 0

\* float(string): sign, digits and an optional fractional part.
PyFloatOf(s) ==
    LET u == Unsigned(s)
        dot == IndexOf(u, ".")
        whole == IF dot = 0 THEN u ELSE SubSeq(u, 1, dot - 1)
        frac == IF dot = 0 THEN <<>> ELSE SubSeq(u, dot + 1, Len(u))
    IN IF /\ Len(whole) + Len(frac) > 0
          /\ \A i \in 1..Len(whole) : IsDigit(whole[i])
          /\ \A i \in 1..Len(frac) : IsDigit(frac[i])
       THEN Returned(PyFloat(Signed(s, DigitsToNat(whole)), frac))
       ELSE Raised("ValueError")

\* datetime.strptime(value, "%H:%M:%S").time(): three colon separated fields
\* of one or two digits within the ranges of hours, minutes and seconds.
TimeField(f, limit) == Len(f) \in {1, 2} /\ AllDigits(f) /\ DigitsToNat(f) < limit
PyTimeOf(s) ==
    LET c1 == IndexOf(s, ":")
        rest == IF c1 = 0 THEN <<>> ELSE SubSeq(s, c1 + 1, Len(s))
        c2 == IndexOf(rest, ":")
        hh == IF c1 = 0 THEN <<>> ELSE SubSeq(s, 1, c1 - 1)
        mm == IF c2 = 0 THEN <<>> ELSE SubSeq(rest, 1, c2 - 1)
        ss == IF c2 = 0 THEN <<>> ELSE SubSeq(rest, c2 + 1, Len(rest))
    IN IF c1 # 0 /\ c2 # 0 /\ TimeField(hh, 24) /\ TimeField(mm, 60) /\ TimeField(ss, 62)
       THEN Returned(PyTime(DigitsToNat(hh), DigitsToNat(mm), DigitsToNat(ss)))
       ELSE Raised("ValueError")

\* The type_func that each typed getter hands to get_type.
TypeFuncs == {"int", "str", "float", "time"}
ApplyTypeFunc(type_func, v) ==
    CASE type_func = "str" -> Returned(v)
      [] type_func = "int" -> PyIntOf(v.chars)
      [] type_func = "float" -> PyFloatOf(v.chars)
      [] type_func = "time" -> PyTimeOf(v.chars)

\* The tables the running code declares, with the versions it declares.
VARIABLE declared

(***************************************************************************)
(* The declared schema: the ledger table of DB.create, the two tables      *)
(* that test_db_object.py declares with DbObject.create, and a table that  *)
(* uses the rest of what DbObject.create takes: a temporal primary key, a  *)
(* column with units, a time-of-day column, a view builder and a view      *)
(* version.                                                                *)
(***************************************************************************)
AttributesTable == "_attributes"
Tables == {AttributesTable, "test_1k", "test_2pk", "test_ts"}

\* The tables that carry a db attribute and so register with DB.add_table,
\* in the order in which the running code declares them.
DeclarationOrder == <<"test_1k", "test_2pk", "test_ts">>
IsDeclared(t) == t \in DOMAIN declared.tables
RegisteredTables == SelectSeq(DeclarationOrder, IsDeclared)

\* The tables that derive from KeyValueObject.
IsKeyValue(t) == t = AttributesTable

Col(name, pk, type) == [name |-> name, primary_key |-> pk, type |-> type]

\* The Column attributes of each table class, in declaration order.
DeclaredColumns(t) ==
    IF IsKeyValue(t)
    THEN <<Col("timestamp", FALSE, "DateTime"), Col("key", TRUE, "String"),
           Col("value", FALSE, "String")>>
    ELSE IF t = "test_ts"
    THEN <<Col("timestamp", TRUE, "DateTime"), Col("value", FALSE, "Integer"),
           Col("tod", FALSE, "Time")>>
    ELSE <<Col("activity_id", TRUE, "String"), Col("record", FALSE, "Integer")>>

\* The pk argument of DbObject.create (empty when not given).
DeclaredPk(t) == IF t = "test_2pk" THEN <<"activity_id", "record">> ELSE <<>>

SeqRange(s) == {s[i] : i \in 1..Len(s)}

\* The columns of cls.__table__: a PrimaryKeyConstraint in __table_args__
\* makes exactly its columns the primary key.
TableColumns(t) ==
    [i \in 1..Len(DeclaredColumns(t)) |->
        LET c == DeclaredColumns(t)[i]
        IN IF DeclaredPk(t) = <<>> THEN c
           ELSE Col(c.name, c.name \in SeqRange(DeclaredPk(t)), c.type)]

ColNameSet(t) == {TableColumns(t)[i].name : i \in 1..Len(TableColumns(t))}

\* The primary key of the mapped table, in column order (mapper.primary_key).
RECURSIVE PkFrom(_, _)
PkFrom(cols, i) ==
    IF i > Len(cols) THEN <<>>
    ELSE (IF cols[i].primary_key THEN <<cols[i].name>> ELSE <<>>) \o PkFrom(cols, i + 1)
MapperPrimaryKey(t) == PkFrom(TableColumns(t), 1)

IsTemporal(col) == col.type \in {"DateTime", "Date", "Time"}

(***************************************************************************)
(* The table descriptor: the class attributes that __setup_table_vars      *)
(* computes the first time a table class is set up.                        *)
(***************************************************************************)
NoDescr == [set |-> FALSE]

\* A primary-key loop that keeps only the latest primary-key column.
RECURSIVE PkLoop_latest_only(_, _, _)
PkLoop_latest_only(cols, i, d) ==
    IF i > Len(cols) THEN d
    ELSE IF cols[i].primary_key
         THEN PkLoop_latest_only(cols, i + 1,
                     [d EXCEPT !.primary_key_cols = <<cols[i].name>>,
                               !.get_col_name = PyText(cols[i].name)])
         ELSE PkLoop_latest_only(cols, i + 1, d)

\* The first loop of __setup_table_vars: d is the descriptor so far.
RECURSIVE PkLoop(_, _, _)
PkLoop(cols, i, d) ==
    IF i > Len(cols) THEN d
    ELSE IF cols[i].primary_key
         THEN PkLoop(cols, i + 1,
                     [d EXCEPT !.primary_key_cols = Append(@, cols[i].name),
                               !.get_col_name = PyText(cols[i].name),
                               !.time_col_name = IF IsTemporal(cols[i])
                                                 THEN PyText(cols[i].name) ELSE @])
         ELSE PkLoop(cols, i + 1, d)

\* A second loop without its break: the last temporal column of the table.
FirstTemporal_unbroken(cols) ==
    IF \E i \in 1..Len(cols) : IsTemporal(cols[i])
    THEN PyText(cols[CHOOSE i \in 1..Len(cols) :
                      IsTemporal(cols[i]) /\ \A j \in (i + 1)..Len(cols) : ~IsTemporal(cols[j])].name)
    ELSE PyNone

\* The second loop: the first temporal column of the table.
FirstTemporal(cols) ==
    IF \E i \in 1..Len(cols) : IsTemporal(cols[i])
    THEN PyText(cols[CHOOSE i \in 1..Len(cols) :
                      IsTemporal(cols[i]) /\ \A j \in 1..(i - 1) : ~IsTemporal(cols[j])].name)
    ELSE PyNone

\* __setup_table_vars on a class whose table has the columns cols.
setup_table_vars_of(cols) ==
    LET d0 == [set |-> TRUE,
               col_names |-> [i \in 1..Len(cols) |-> cols[i].name],
               primary_key_cols |-> <<>>,
               get_col_name |-> PyNone,
               time_col_name |-> PyNone]
        d1 == PkLoop(cols, 1, d0)
    IN IF d1.time_col_name = PyNone
       THEN [d1 EXCEPT !.time_col_name = FirstTemporal(cols)]
       ELSE d1

setup_table_vars(t) == setup_table_vars_of(TableColumns(t))

(***************************************************************************)
(* Rows and sessions.  A row is a function from the column names of its    *)
(* table to Python values.  A session result is the set of instances the   *)
(* body added, the rows it changed in place, and how the body ended.       *)
(***************************************************************************)
\* cls(**values_dict): keyword arguments must name attributes of the class.
NewInstance(t, values_dict) ==
    [c \in ColNameSet(t) |-> IF c \in DOMAIN values_dict THEN values_dict[c] ELSE PyNone]

SamePk(t, r1, r2) ==
    \A i \in 1..Len(MapperPrimaryKey(t)) :
        r1[MapperPrimaryKey(t)[i]] = r2[MapperPrimaryKey(t)[i]]

Session(added, changed, raised, ret) ==
    [added |-> added, changed |-> changed, raised |-> raised, ret |-> ret]

\* How a scope ends: commit and close, or rollback, close and re-raise.
Commit(R, ret) == [rows |-> R, raised |-> NoError, ret |-> ret, closed |-> TRUE]
Rollback(R, e) == [rows |-> R, raised |-> e, ret |-> PyNone, closed |-> TRUE]

\* A scope that commits what the body wrote before it raised.
managed_session_committing(t, R, s) ==
    IF s.raised # NoError THEN Commit(R \cup s.added, PyNone) ELSE Commit(R \cup s.added, s.ret)

\* db.managed_session(): the body's writes are committed when it ends
\* normally and rolled back when it raises; the flush of an added instance
\* whose primary key is already stored fails and rolls back as well.
\* R is the stored table, s the session the body leaves behind.
managed_session(t, R, s) ==
    LET kept == {r \in R : \A c \in s.changed : ~SamePk(t, r, c)}
        collides == \E a \in s.added : \E r \in kept \cup s.changed : SamePk(t, a, r)
    IN IF s.raised # NoError THEN Rollback(R, s.raised)
       ELSE IF collides THEN Rollback(R, "IntegrityError")
       ELSE Commit(kept \cup s.changed \cup s.added, s.ret)

(***************************************************************************)
(* DbObject: the helpers that run inside a session.  R is the stored       *)
(* table, t its name and descr the descriptor of its class.                *)
(***************************************************************************)
\* session.query(cls).get(instance_id): the identifier must have one value
\* per primary-key column.
s_get(R, t, instance_id, default) ==
    LET pk == MapperPrimaryKey(t)
        found == {r \in R : \A i \in 1..Len(pk) : r[pk[i]] = instance_id[i]}
    IN IF Len(instance_id) # Len(pk) THEN Raised("InvalidRequestError")
       ELSE IF found = {} THEN Returned(default)
       ELSE Returned(CHOOSE r \in found : TRUE)

\* An exists that applies no primary-key filter to the query.
s_exists_unfiltered(R, t, descr, values_dict) == Returned(PyBool(R # {}))

s_exists(R, t, descr, values_dict) ==
    IF ~descr.set THEN Raised("AttributeError")
    ELSE Returned(PyBool(\E r \in R :
            \A i \in 1..Len(descr.primary_key_cols) :
                r[descr.primary_key_cols[i]] = values_dict[descr.primary_key_cols[i]]))

\* DbObject.s_get_from_dict, and its override in KeyValueObject.
s_get_from_dict(R, t, descr, values_dict) ==
    IF IsKeyValue(t) THEN s_get(R, t, <<values_dict["key"]>>, PyNone)
    ELSE IF ~descr.set THEN Raised("AttributeError")
    ELSE s_get(R, t, <<values_dict[descr.get_col_name.text]>>, PyNone)

\* Whether update_from_dict gets as far as looking the key up in col_names.
Considered(value, ignore_none, ignore_zero) ==
    (~ignore_none \/ value # PyNone) /\ (~ignore_zero \/ value # PyInt(0))

\* An update that skips every zero value, whatever ignore_zero says.
update_from_dict_skipping_zero(row, descr, values_dict, ignore_none, ignore_zero) ==
    Returned([c \in DOMAIN row |->
        IF /\ c \in DOMAIN values_dict
           /\ Considered(values_dict[c], ignore_none, TRUE)
           /\ c \in SeqRange(descr.col_names)
        THEN values_dict[c] ELSE row[c]])

update_from_dict(row, descr, values_dict, ignore_none, ignore_zero) ==
    IF ~descr.set /\ \E k \in DOMAIN values_dict :
                        Considered(values_dict[k], ignore_none, ignore_zero)
    THEN Raised("AttributeError")
    ELSE Returned([c \in DOMAIN row |->
            IF /\ c \in DOMAIN values_dict
               /\ Considered(values_dict[c], ignore_none, ignore_zero)
               /\ c \in SeqRange(descr.col_names)
            THEN values_dict[c] ELSE row[c]])

\* A find_or_create that writes the given values over a record it finds.
s_find_or_create_overwriting(R, t, descr, values_dict) ==
    IF s_get_from_dict(R, t, descr, values_dict).raised # NoError
    THEN Session({}, {}, s_get_from_dict(R, t, descr, values_dict).raised, PyNone)
    ELSE IF s_get_from_dict(R, t, descr, values_dict).ret = PyNone
         THEN Session({NewInstance(t, values_dict)}, {}, NoError, PyNone)
    ELSE Session({}, {NewInstance(t, values_dict)}, NoError, PyNone)

s_find_or_create(R, t, descr, values_dict) ==
    LET instance == s_get_from_dict(R, t, descr, values_dict)
    IN IF instance.raised # NoError THEN Session({}, {}, instance.raised, PyNone)
       ELSE IF instance.ret = PyNone
            THEN Session({NewInstance(t, values_dict)}, {}, NoError, PyNone)
       ELSE Session({}, {}, NoError, PyNone)

s_insert_or_update(R, t, descr, values_dict, ignore_none, ignore_zero) ==
    LET instance == s_get_from_dict(R, t, descr, values_dict)
        updated == update_from_dict(instance.ret, descr, values_dict, ignore_none, ignore_zero)
    IN IF instance.raised # NoError THEN Session({}, {}, instance.raised, PyNone)
       ELSE IF instance.ret # PyNone
            THEN IF updated.raised # NoError THEN Session({}, {}, updated.raised, PyNone)
                 ELSE Session({}, {updated.ret}, NoError, PyNone)
       ELSE Session({NewInstance(t, values_dict)}, {}, NoError, PyNone)

\* The database-level wrappers: one managed session around the helper.
exists(R, t, descr, values_dict) ==
    LET e == s_exists(R, t, descr, values_dict)
    IN managed_session(t, R, Session({}, {}, e.raised, e.ret))

add(R, t, values_dict) ==
    managed_session(t, R, Session({NewInstance(t, values_dict)}, {}, NoError, PyNone))

get(R, t, instance_id, default) ==
    LET g == s_get(R, t, instance_id, default)
    IN managed_session(t, R, Session({}, {}, g.raised, g.ret))

find_or_create(R, t, descr, values_dict) ==
    managed_session(t, R, s_find_or_create(R, t, descr, values_dict))

insert_or_update(R, t, descr, values_dict, ignore_none) ==
    managed_session(t, R, s_insert_or_update(R, t, descr, values_dict, ignore_none, FALSE))

\* session.query(cls).all(): the rows come in no particular order.
get_all(R, t) == managed_session(t, R, Session({}, {}, NoError, R))

(***************************************************************************)
(* DbObject: the query helpers.  A datetime is a number of ticks, of which *)
(* TicksPerDay make a day; a selectable or filter column is an expression  *)
(* that is evaluated on each row as the engine evaluates it.               *)
(***************************************************************************)
TicksPerDay == 2
DaysPerYear == 365
SecsPerDay == 86400
\* strftime('%s', '00:00'): a bare time is a time of 2000-01-01.
Epoch2000 == 946684800

\* strftime("%j", time_col): the day of the year, not of the calendar.
DayOfYear(ts) == ((ts.t \div TicksPerDay) % DaysPerYear) + 1

ColExpr(name) == [tag |-> "column", name |-> name]
SecsExpr(name) == [tag |-> "secs_from_time", name |-> name]

\* strftime('%s', value) of a time-of-day value.
strftime_s(v) == Epoch2000 + (v.h * 3600) + (v.m * 60) + v.s

\* _secs_from_time: NULL for a NULL time.
secs_from_time(v) ==
    IF v = PyNone THEN PyNone ELSE PyInt(strftime_s(v) - strftime_s(PyTime(0, 0, 0)))

TwoDigits(n) == <<DigitChars[(n \div 10) + 1], DigitChars[(n % 10) + 1]>>

\* An average as the fraction total / count in lowest terms.
RECURSIVE Gcd(_, _)
Gcd(a, b) == IF b = 0 THEN a ELSE Gcd(b, a % b)
PyRatio(total, count) ==
    [tag |-> "float", num |-> total \div Gcd(total, count), den |-> count \div Gcd(total, count)]

\* The whole seconds of a number of seconds.
WholeSecs(v) == IF v.tag = "float" THEN v.num \div v.den ELSE v.val

\* A conversion back that writes the hour of a twelve-hour clock.
time_from_secs_12h(value) ==
    IF value = PyNone THEN PyNone
    ELSE PyStr(TwoDigits(((WholeSecs(value) % SecsPerDay) \div 3600) % 12) \o <<":">>
               \o TwoDigits(((WholeSecs(value) % SecsPerDay) % 3600) \div 60) \o <<":">>
               \o TwoDigits((WholeSecs(value) % SecsPerDay) % 60))

\* _time_from_secs: time(value, 'unixepoch') gives 'HH:MM:SS', NULL for NULL.
time_from_secs(value) ==
    IF value = PyNone THEN PyNone
    ELSE PyStr(TwoDigits((WholeSecs(value) % SecsPerDay) \div 3600) \o <<":">>
               \o TwoDigits(((WholeSecs(value) % SecsPerDay) % 3600) \div 60) \o <<":">>
               \o TwoDigits((WholeSecs(value) % SecsPerDay) % 60))

\* The value of an expression on a row.
Eval(expr, r) ==
    IF expr.tag = "column" THEN r[expr.name] ELSE secs_from_time(r[expr.name])

\* expr > 0 as a filter: a Python bool is compared before the query is
\* built and the filter is then constantly that; NULL > 0 passes no row.
Positive(expr, r) ==
    IF expr.tag = "bool" THEN expr.b
    ELSE Eval(expr, r) # PyNone /\ Eval(expr, r).val > 0

\* cls.time_col exists only when __setup_table_vars found a time column.
HasTimeCol(descr) == descr.set /\ descr.time_col_name # PyNone
TimeOf(descr, r) == r[descr.time_col_name.text]

\* Comparisons of the time column with a bound: NULL compares with nothing.
NotBefore(time, bound) == time # PyNone /\ bound # PyNone /\ time.t >= bound.t
Before(time, bound) == time # PyNone /\ bound # PyNone /\ time.t < bound.t

during(descr, r, start_ts, end_ts) ==
    NotBefore(TimeOf(descr, r), start_ts) /\ Before(TimeOf(descr, r), end_ts)
after(descr, r, start_ts) == NotBefore(TimeOf(descr, r), start_ts)
before(descr, r, end_ts) == Before(TimeOf(descr, r), end_ts)

\* A window that is closed at its end.
InWindow_closed(descr, r, start_ts, end_ts) ==
    /\ start_ts # PyNone => NotBefore(TimeOf(descr, r), start_ts)
    /\ end_ts # PyNone => (Before(TimeOf(descr, r), end_ts) \/ TimeOf(descr, r) = end_ts)

\* The time filter that _s_query adds.
InWindow(descr, r, start_ts, end_ts) ==
    IF start_ts # PyNone /\ end_ts # PyNone THEN during(descr, r, start_ts, end_ts)
    ELSE IF start_ts # PyNone THEN after(descr, r, start_ts)
    ELSE IF end_ts # PyNone THEN before(descr, r, end_ts)
    ELSE TRUE

\* _s_query: the rows that the query selects from.  The filters need
\* cls.time_col only when a bound is given.
s_query(R, descr, start_ts, end_ts, ignore_le_zero_col) ==
    IF (start_ts # PyNone \/ end_ts # PyNone) /\ ~HasTimeCol(descr)
    THEN Raised("AttributeError")
    ELSE Returned({r \in R : /\ InWindow(descr, r, start_ts, end_ts)
                             /\ ignore_le_zero_col # PyNone => Positive(ignore_le_zero_col, r)})

\* The rows of a query result in the order of cls.time_col.
RECURSIVE OrderedBy(_, _)
OrderedBy(S, descr) ==
    IF S = {} THEN <<>>
    ELSE <<CHOOSE r \in S : \A q \in S : ~Before(TimeOf(descr, q), TimeOf(descr, r))>>
         \o OrderedBy(S \ {CHOOSE r \in S : \A q \in S : ~Before(TimeOf(descr, q), TimeOf(descr, r))},
                      descr)

\* query.all() / query.count() on what _s_query selected, or its exception.
AllOf(q, descr) == IF q.raised # NoError THEN q ELSE Returned(OrderedBy(q.ret, descr))

\* s_get_for_period: cls.time_col is evaluated for order_by before anything
\* else; not_none_col adds the filter col != None.
s_get_for_period(R, descr, start_ts, end_ts, not_none_col) ==
    IF ~HasTimeCol(descr) THEN Raised("AttributeError")
    ELSE IF not_none_col = PyNone THEN AllOf(s_query(R, descr, start_ts, end_ts, PyNone), descr)
    ELSE AllOf(Returned({r \in s_query(R, descr, start_ts, end_ts, PyNone).ret :
                            Eval(not_none_col, r) # PyNone}), descr)

s_row_count_for_period(R, descr, start_ts, end_ts) ==
    IF ~HasTimeCol(descr) THEN Raised("AttributeError")
    ELSE Returned(PyInt(Cardinality({r \in R : /\ NotBefore(TimeOf(descr, r), start_ts)
                                                /\ Before(TimeOf(descr, r), end_ts)})))

\* The aggregate functions.  f maps what is aggregated over (rows, or the
\* days of a grouping) to values; NULL values do not take part, and an
\* aggregate of no value is NULL.
StatFuncs == {"avg", "min", "max", "sum"}
NonNull(f) == {x \in DOMAIN f : f[x] # PyNone}

RECURSIVE SumOf(_, _)
SumOf(f, D) ==
    IF D = {} THEN 0 ELSE f[CHOOSE x \in D : TRUE].val + SumOf(f, D \ {CHOOSE x \in D : TRUE})

Aggregate(stat_func, f) ==
    IF NonNull(f) = {} THEN PyNone
    ELSE CASE stat_func = "sum" -> PyInt(SumOf(f, NonNull(f)))
           [] stat_func = "avg" -> PyRatio(SumOf(f, NonNull(f)), Cardinality(NonNull(f)))
           [] stat_func = "min" ->
                 f[CHOOSE x \in NonNull(f) : \A y \in NonNull(f) : f[x].val <= f[y].val]
           [] stat_func = "max" ->
                 f[CHOOSE x \in NonNull(f) : \A y \in NonNull(f) : f[x].val >= f[y].val]

\* query(func(col)).scalar() on what _s_query selected, or its exception.
ScalarOf(q, stat_func, col) ==
    IF q.raised # NoError THEN q
    ELSE Returned(Aggregate(stat_func, [r \in q.ret |-> Eval(col, r)]))

\* _s_get_col_func_query(...).scalar(): ignore_le_zero is a flag here.
s_get_col_func(R, descr, col, stat_func, start_ts, end_ts, ignore_le_zero) ==
    ScalarOf(s_query(R, descr, start_ts, end_ts, IF ignore_le_zero THEN col ELSE PyNone),
             stat_func, col)

\* .filter(match_col == / > / < match_value) on what _s_query selected: a
\* comparison with NULL passes no row.
Comparisons == {"==", ">", "<"}
ComparesWith(cmp, v, match_value) ==
    /\ v # PyNone
    /\ match_value # PyNone
    /\ CASE cmp = "==" -> v.val = match_value.val
         [] cmp = ">" -> v.val > match_value.val
         [] cmp = "<" -> v.val < match_value.val
Filtered(q, match_col, cmp, match_value) ==
    IF q.raised # NoError THEN q
    ELSE Returned({r \in q.ret : ComparesWith(cmp, Eval(match_col, r), match_value)})

\* _s_get_col_func_for_value, _get_col_func_greater_than_value (which takes
\* no ignore_le_zero) and _get_col_func_less_than_value
s_get_col_func_compared(R, descr, col, stat_func, match_col, cmp, match_value, start_ts, end_ts, ignore_le_zero) ==
    ScalarOf(Filtered(s_query(R, descr, start_ts, end_ts, IF ignore_le_zero THEN col ELSE PyNone),
                      match_col, cmp, match_value),
             stat_func, col)

\* strptime(result, '%H:%M:%S').time() if result is not None else time.min
TimeOrMin(result) ==
    IF result.raised # NoError THEN result
    ELSE IF result.ret = PyNone THEN Returned(PyTime(0, 0, 0))
    ELSE PyTimeOf(result.ret.chars)

\* A helper that hands the NULL of the query on.
s_get_time_col_func_null(R, descr, col, stat_func, start_ts, end_ts) ==
    IF ScalarOf(s_query(R, descr, start_ts, end_ts, SecsExpr(col.name)),
                stat_func, SecsExpr(col.name)).ret = PyNone
    THEN ScalarOf(s_query(R, descr, start_ts, end_ts, SecsExpr(col.name)),
                  stat_func, SecsExpr(col.name))
    ELSE TimeOrMin(Returned(time_from_secs(
            ScalarOf(s_query(R, descr, start_ts, end_ts, SecsExpr(col.name)),
                     stat_func, SecsExpr(col.name)).ret)))

\* _s_get_time_col_func: the aggregate of the seconds since midnight of the
\* rows where they are above zero, as a time of day.
s_get_time_col_func(R, descr, col, stat_func, start_ts, end_ts) ==
    IF s_query(R, descr, start_ts, end_ts, SecsExpr(col.name)).raised # NoError
    THEN s_query(R, descr, start_ts, end_ts, SecsExpr(col.name))
    ELSE TimeOrMin(Returned(time_from_secs(
            ScalarOf(s_query(R, descr, start_ts, end_ts, SecsExpr(col.name)),
                     stat_func, SecsExpr(col.name)).ret)))

\* The values of one column of an ordered result.
ValuesOf(seq, col) == [i \in 1..Len(seq) |-> Eval(col, seq[i])]

\* get_col_values: cls.time_col orders the result; the flag ignore_le_zero
\* itself, a bool, is what _s_query gets as its ignore_le_zero_col.
s_get_col_values(R, descr, get_col, match_col, match_value, start_ts, end_ts, ignore_le_zero) ==
    IF ~HasTimeCol(descr) THEN Raised("AttributeError")
    ELSE Returned(ValuesOf(
            OrderedBy({r \in s_query(R, descr, start_ts, end_ts, PyBool(ignore_le_zero)).ret :
                          Eval(match_col, r) = match_value}, descr),
            get_col))

\* The groups of group_by(strftime("%j", cls.time_col)) and max(col) of each.
DaysOf(S, descr) == {DayOfYear(TimeOf(descr, r)) : r \in S}
MaxOfDay(S, descr, col, day) ==
    Aggregate("max", [r \in {q \in S : DayOfYear(TimeOf(descr, q)) = day} |-> Eval(col, r)])
PerDayMaxes(S, descr, col) == [day \in DaysOf(S, descr) |-> MaxOfDay(S, descr, col, day)]

\* _s_get_col_func_of_max_per_day_for_value: the filter is always during();
\* the query with the filter on match_col is built and dropped.
s_get_col_func_of_max_per_day_for_value(R, descr, col, stat_func, start_ts, end_ts, match_col, match_value) ==
    IF ~HasTimeCol(descr) THEN Raised("AttributeError")
    ELSE Returned(Aggregate(stat_func,
                            PerDayMaxes({r \in R : during(descr, r, start_ts, end_ts)}, descr, col)))

(***************************************************************************)
(* Wrappers: each helper runs in a managed session of its own.             *)
(***************************************************************************)
Reading(t, R, res) == managed_session(t, R, Session({}, {}, res.raised, res.ret))

get_for_period(R, t, descr, start_ts, end_ts, not_none_col) ==
    Reading(t, R, s_get_for_period(R, descr, start_ts, end_ts, not_none_col))

row_count_for_period(R, t, descr, start_ts, end_ts) ==
    Reading(t, R, s_row_count_for_period(R, descr, start_ts, end_ts))

\* get_col_avg / get_col_min / get_col_max / get_col_sum
get_col_func(R, t, descr, col, stat_func, start_ts, end_ts, ignore_le_zero) ==
    Reading(t, R, s_get_col_func(R, descr, col, stat_func, start_ts, end_ts, ignore_le_zero))

\* get_col_*_for_value, get_col_*_greater_than_value, get_col_*_less_than_value
get_col_func_compared(R, t, descr, col, stat_func, match_col, cmp, match_value, start_ts, end_ts, ignore_le_zero) ==
    Reading(t, R, s_get_col_func_compared(R, descr, col, stat_func, match_col, cmp, match_value,
                                          start_ts, end_ts, ignore_le_zero))

\* get_time_col_avg / get_time_col_min / get_time_col_max / get_time_col_sum
get_time_col_func(R, t, descr, col, stat_func, start_ts, end_ts) ==
    Reading(t, R, s_get_time_col_func(R, descr, col, stat_func, start_ts, end_ts))

get_col_values(R, t, descr, get_col, match_col, match_value, start_ts, end_ts, ignore_le_zero) ==
    Reading(t, R, s_get_col_values(R, descr, get_col, match_col, match_value, start_ts, end_ts,
                                   ignore_le_zero))

\* _get_col_func_of_max_per_day_for_value
get_col_func_of_max_per_day_for_value(R, t, descr, col, stat_func, start_ts, end_ts, match_col, match_value) ==
    Reading(t, R, s_get_col_func_of_max_per_day_for_value(R, descr, col, stat_func, start_ts,
                                                          end_ts, match_col, match_value))

\* _get_col_func_of_max_per_day: func.sum is passed on, not stat_func.
get_col_func_of_max_per_day(R, t, descr, col, stat_func, start_ts, end_ts) ==
    get_col_func_of_max_per_day_for_value(R, t, descr, col, "sum", start_ts, end_ts, PyNone, PyNone)

(***************************************************************************)
(* KeyValueObject: the ledger operations.                                  *)
(***************************************************************************)
Pair(key, value, timestamp) ==
    [timestamp |-> timestamp, key |-> key, value |-> PyStrOf(value)]

set(R, t, descr, key, value, timestamp) ==
    insert_or_update(R, t, descr, Pair(key, value, timestamp), FALSE)

\* A set_newer that also takes an equal timestamp for newer.
s_set_newer_or_equal(R, t, descr, key, value, timestamp) ==
    IF \/ s_get(R, t, <<key>>, PyNone).ret = PyNone
       \/ s_get(R, t, <<key>>, PyNone).ret.timestamp.t <= timestamp.t
    THEN s_insert_or_update(R, t, descr, Pair(key, value, timestamp), TRUE, FALSE)
    ELSE Session({}, {}, NoError, PyNone)

s_set_newer(R, t, descr, key, value, timestamp) ==
    LET item == s_get(R, t, <<key>>, PyNone)
    IN IF item.raised # NoError THEN Session({}, {}, item.raised, PyNone)
       ELSE IF item.ret = PyNone \/ item.ret.timestamp.t < timestamp.t
            THEN s_insert_or_update(R, t, descr, Pair(key, value, timestamp), TRUE, FALSE)
       ELSE Session({}, {}, NoError, PyNone)

set_newer(R, t, descr, key, value, timestamp) ==
    managed_session(t, R, s_set_newer(R, t, descr, key, value, timestamp))

set_if_unset(R, t, descr, key, value, timestamp) ==
    find_or_create(R, t, descr, Pair(key, value, timestamp))

\* A get_type that lets the conversion error reach the caller.
get_type_unguarded(R, t, type_func, key, default) ==
    IF get(R, t, <<key>>, PyNone).ret = PyNone
    THEN [rows |-> R, raised |-> NoError, ret |-> default, logged |-> FALSE]
    ELSE [rows |-> R,
          raised |-> ApplyTypeFunc(type_func, get(R, t, <<key>>, PyNone).ret.value).raised,
          ret |-> ApplyTypeFunc(type_func, get(R, t, <<key>>, PyNone).ret.value).ret,
          logged |-> FALSE]

\* get_type: the default when the key is absent or the conversion fails
\* (the failure is logged), None when the stored value is None.
get_type(R, t, type_func, key, default) ==
    LET instance == get(R, t, <<key>>, PyNone)
        converted == ApplyTypeFunc(type_func, instance.ret.value)
    IN IF instance.raised # NoError
       THEN [rows |-> R, raised |-> instance.raised, ret |-> PyNone, logged |-> FALSE]
       ELSE IF instance.ret # PyNone
            THEN IF instance.ret.value # PyNone
                 THEN IF converted.raised = NoError
                      THEN [rows |-> R, raised |-> NoError, ret |-> converted.ret, logged |-> FALSE]
                      ELSE [rows |-> R, raised |-> NoError, ret |-> default, logged |-> TRUE]
                 ELSE [rows |-> R, raised |-> NoError, ret |-> PyNone, logged |-> FALSE]
       ELSE [rows |-> R, raised |-> NoError, ret |-> default, logged |-> FALSE]

get_int(R, t, key, default) == get_type(R, t, "int", key, default)

(***************************************************************************)
(* The state.                                                              *)
(***************************************************************************)
VARIABLES
    rows,        \* the stored rows of every table of the database
    views,       \* the names of the views that exist in the database
    default_ts,  \* datetime.now() as evaluated for each default when key_value.py was loaded
    descr,       \* the descriptor of each table class in the running process
    handle,      \* whether the running process holds a constructed DB
    scope,       \* the managed_session scope that a caller has entered
    sessions,    \* the call that each concurrent caller is in, and how far it is
    last         \* the latest call and how it ended

vars == <<rows, views, declared, default_ts, descr, handle, scope, sessions, last>>

\* timestamp=datetime.datetime.now() in the signatures of set, set_newer and
\* set_if_unset: each default is evaluated when the class body runs, one
\* after the other, so that a later one is the same instant or a later one.
\* The callers that may run at the same time, each in a process or thread of
\* its own, and the state in which none of them is in a call.
Callers == {"w1", "w2"}
NoSessions == [w \in Callers |-> [pc |-> "idle"]]

DefaultTimestamps ==
    {d \in [set : Times, set_newer : Times, set_if_unset : Times] :
        d.set <= d.set_newer /\ d.set_newer <= d.set_if_unset}
FirstDefaults == [set |-> 0, set_newer |-> 0, set_if_unset |-> 0]

\* One default for the three methods.
DefaultTimestamp_shared(method) == default_ts.set

\* The timestamp of a call of a method that omits it.
DefaultTimestamp(method) == default_ts[method]

\* No caller is inside a managed_session scope.
NoScope == [state |-> "none"]

Ledger == rows[AttributesTable]

\* The stored pair of a key, or None.
Stored(R, key) == IF \E r \in R : r.key = key THEN CHOOSE r \in R : r.key = key ELSE PyNone

\* The stored row with the primary key of a values dict, or None.
StoredRow(R, t, values_dict) ==
    LET same == {r \in R : \A i \in 1..Len(MapperPrimaryKey(t)) :
                    r[MapperPrimaryKey(t)[i]] = values_dict[MapperPrimaryKey(t)[i]]}
    IN IF same = {} THEN PyNone ELSE CHOOSE r \in same : TRUE

(***************************************************************************)
(* The schema annotations that DbObject.create takes besides the columns.  *)
(***************************************************************************)
\* The tables whose declaration passes create_view.
ViewTables == {"test_ts"}
\* _col_units as (column, units) pairs.
ColUnits(t) == IF t = "test_ts" THEN <<<<"value", PyStr(<<"b", "p", "m">>)>>>> ELSE <<>>
\* view_version, or None when the table declares none.
DeclaredViewVersion(t) == IF t \in ViewTables THEN declared.views[t] ELSE PyNone
HasCreateView(t) == t \in ViewTables
get_default_view_name(t) == t \o "_view"

DbVersionKey == PyText("db.version")
TableVersionKey(t) == PyText(t \o ".version")
ViewVersionKey(t) == PyText(t \o ".view_version")
UnitsKey(t, colname) == PyText(t \o "." \o colname \o ".units")

(***************************************************************************)
(* DbAttributesObject and DB.  A construction threads a record st through  *)
(* its steps: the ledger rows, the descriptors, the views, the exception   *)
(* raised so far, the key whose check rejected, and the log of the steps   *)
(* that ran, each with the table it ran on.                                *)
(***************************************************************************)
AttrDescr(st) == st.descr[AttributesTable]
OtherKeys(R, key) == {r \in R : r.key # key}

Logged(st, step, t) == [st EXCEPT !.log = Append(@, <<step, t>>)]

\* A version check that reads the stored version and then overwrites it with
\* the declared one.
version_check_key_overwriting(st, version_key, version_number) ==
    [rows |-> {r \in st.attrs : r.key # version_key}
                \cup {Pair(version_key, PyInt(version_number), PyDateTime(DefaultTimestamp("set_if_unset")))},
     raised |-> NoError,
     ret |-> get_int(st.attrs, AttributesTable, version_key, PyInt(version_number)).ret]

\* __version_check_key: bootstrap with set_if_unset, then read back.
\* The second statement of __version_check_key: boot is what set_if_unset left.
ReadBack(boot, read) ==
    IF boot.raised # NoError THEN [rows |-> boot.rows, raised |-> boot.raised, ret |-> PyNone]
    ELSE [rows |-> boot.rows, raised |-> read.raised, ret |-> read.ret]

Bootstrapped(boot, version_key) ==
    ReadBack(boot, get_int(boot.rows, AttributesTable, version_key, PyNone))

version_check_key(st, version_key, version_number) ==
    Bootstrapped(set_if_unset(st.attrs, AttributesTable, AttrDescr(st), version_key,
                              PyInt(version_number), PyDateTime(DefaultTimestamp("set_if_unset"))),
                 version_key)

\* The comparison that version_check and table_version_check make on the
\* version c that __version_check_key returned.
Compared(st, version_key, version_number, c) ==
    IF c.raised # NoError THEN [st EXCEPT !.attrs = c.rows, !.raised = c.raised]
    ELSE IF c.ret # PyInt(version_number)
         THEN [st EXCEPT !.attrs = c.rows, !.raised = "RuntimeError", !.rejected = version_key]
    ELSE [st EXCEPT !.attrs = c.rows]

Checked(st, version_key, version_number) ==
    Compared(st, version_key, version_number,
             version_check_key(st, version_key, version_number))

version_check(st) == Checked(st, DbVersionKey, declared.db)

\* A table version check that bootstraps and reads but never compares.
table_version_check_uncompared(st, t) ==
    [st EXCEPT !.attrs = version_check_key(st, TableVersionKey(t), declared.tables[t]).rows]

table_version_check(st, t) ==
    Checked(Logged(st, "table_version_check", t), TableVersionKey(t), declared.tables[t])

UnitsSet(st, u) == [st EXCEPT !.attrs = u.rows, !.raised = u.raised]

RECURSIVE UnitsFrom(_, _, _)
UnitsFrom(st, t, i) ==
    IF i > Len(ColUnits(t)) \/ st.raised # NoError THEN st
    ELSE UnitsFrom(UnitsSet(st, set_if_unset(st.attrs, AttributesTable, AttrDescr(st),
                                             UnitsKey(t, ColUnits(t)[i][1]), ColUnits(t)[i][2],
                                             PyDateTime(DefaultTimestamp("set_if_unset")))),
                   t, i + 1)

update_table_units(st, t) == UnitsFrom(Logged(st, "update_table_units", t), t, 1)

\* CREATE VIEW IF NOT EXISTS, as the table's create_view issues it through
\* create_view_if_doesnt_exist under the default view name.
create_view(st, t) ==
    Logged([st EXCEPT !.views = @ \cup {get_default_view_name(t)}], "create_view", t)

\* A delete_view that drops nothing.
delete_view_keeping(st, t) == Logged(st, "delete_view", t)

\* DROP VIEW IF EXISTS on the default view name.
delete_view(st, t) ==
    Logged([st EXCEPT !.views = @ \ {get_default_view_name(t)}], "delete_view", t)

\* A view check that, on a mismatch, stores the declared view version over
\* the stored one before the view is dropped.
Healed(R, t) ==
    OtherKeys(R, ViewVersionKey(t))
       \cup {Pair(ViewVersionKey(t), DeclaredViewVersion(t), PyDateTime(DefaultTimestamp("set_if_unset")))}
ViewCompared_healing(st, t, c) ==
    IF c.raised # NoError THEN [st EXCEPT !.attrs = c.rows, !.raised = c.raised]
    ELSE IF c.ret # DeclaredViewVersion(t) THEN delete_view([st EXCEPT !.attrs = Healed(c.rows, t)], t)
    ELSE [st EXCEPT !.attrs = c.rows]
\* view_version_check and the delete_view that init_table makes on a mismatch.
ViewCompared(st, t, c) ==
    IF c.raised # NoError THEN [st EXCEPT !.attrs = c.rows, !.raised = c.raised]
    ELSE IF c.ret # DeclaredViewVersion(t) THEN delete_view([st EXCEPT !.attrs = c.rows], t)
    ELSE [st EXCEPT !.attrs = c.rows]

view_version_check(st, t) ==
    IF DeclaredViewVersion(t) = PyNone THEN Logged(st, "view_version_check", t)
    ELSE ViewCompared(Logged(st, "view_version_check", t), t,
                      version_check_key(st, ViewVersionKey(t), DeclaredViewVersion(t).val))

\* DbObject.setup: the descriptor is computed once per class, then the
\* table's create_view runs.
Described(st, t) ==
    Logged([st EXCEPT !.descr[t] = IF @.set THEN @ ELSE setup_table_vars(t)], "setup", t)

\* A setup that leaves the view to its first reader.
setup_without_view(st, t) == Described(st, t)

setup(st, t) ==
    IF HasCreateView(t) THEN create_view(Described(st, t), t) ELSE Described(st, t)

\* init_table, statement by statement: each step runs on the state that the
\* step before it left, unless that step raised.
ThenViewCheck(st, t) == IF st.raised # NoError THEN st ELSE view_version_check(st, t)
ThenUnits(st, t) ==
    IF st.raised # NoError THEN st ELSE ThenViewCheck(update_table_units(st, t), t)

init_table(st, t) == ThenUnits(table_version_check(setup(st, t), t), t)

RECURSIVE InitTablesFrom(_, _)
InitTablesFrom(st, i) ==
    IF i > Len(RegisteredTables) \/ st.raised # NoError THEN st
    ELSE InitTablesFrom(init_table(st, RegisteredTables[i]), i + 1)

\* DB.__init__: the database version check, then every registered table.
ThenTables(st) == IF st.raised # NoError THEN st ELSE InitTablesFrom(st, 1)

\* A DB.__init__ that initializes the tables and then checks the database
\* version.
ThenVersionCheck(st) == IF st.raised # NoError THEN st ELSE version_check(st)
DB_init_tables_first ==
    ThenVersionCheck(InitTablesFrom([attrs |-> Ledger, descr |-> descr, views |-> views,
                                     raised |-> NoError, rejected |-> PyNone, log |-> <<>>], 1))
DB_init ==
    ThenTables(version_check([attrs |-> Ledger, descr |-> descr, views |-> views,
                              raised |-> NoError, rejected |-> PyNone, log |-> <<>>]))

(***************************************************************************)
(* Inputs.                                                                 *)
(***************************************************************************)
RegisteredSet == SeqRange(RegisteredTables)
\* The version the code declares when the database is first created.
TestVersion == CHOOSE v \in Versions : \A w \in Versions : v <= w
Declarations ==
    [db : Versions, tables : [RegisteredSet -> Versions],
     views : [ViewTables \cap RegisteredSet -> {PyNone} \cup {PyInt(v) : v \in Versions}]]

\* What the code declares when the database is first created.
FirstDeclaration(tables) ==
    [db |-> TestVersion, tables |-> [t \in tables |-> TestVersion],
     views |-> [t \in ViewTables \cap tables |-> PyInt(TestVersion)]]

\* The keys, values and defaults that callers hand to the ledger.
LedgerKeys == {PyText("pref"), TableVersionKey("test_1k")}
InputValues == {PyInt(9), PyStr(<<"k", "g">>), PyStr(<<"7", ":", "0", "5", ":", "5", "9">>)}
Defaults == {PyNone, PyInt(0)}

\* The values dicts that callers hand to the test tables: the primary-key
\* columns are always present and not None.
Ids == {PyInt(i) : i \in 0..MaxId}
\* record is zero or not zero: the two cases that ignore_zero tells apart.
Records == {PyInt(0), PyInt(1)}
ValuesDicts(t) ==
    IF t = "test_2pk" THEN [activity_id : Ids, record : Records]
    ELSE [activity_id : Ids, record : Records \cup {PyNone}] \cup [activity_id : Ids]

\* The rows that callers add to the table with the time column, and the
\* bounds of the windows they read: the first ticks and the last ones.
Stamps == {PyDateTime(ts) : ts \in 0..MaxStamp}
WindowDicts == [timestamp : Stamps, value : {PyInt(1), PyInt(2)}]
Starts == {PyNone, PyDateTime(0), PyDateTime(1)}
Ends == {PyNone, PyDateTime(1), PyDateTime(MaxStamp), PyDateTime(MaxStamp + 1)}
\* Times of day: midnight, the last second of the day and times between;
\* and the rows with a time of day, whose value may be zero.
Hours == {0, 7, 12, 23}
Minutes == {0, 5, 59}
Seconds == {0, 9, 59}
TimesOfDay == {PyTime(h, m, s) : h \in Hours, m \in Minutes, s \in Seconds}
Tods == {PyNone, PyTime(0, 0, 0), PyTime(7, 5, 9), PyTime(23, 59, 59)}
TodDicts == [timestamp : {PyDateTime(0), PyDateTime(1)}, value : {PyInt(0), PyInt(1)}, tod : Tods]
AggregateWindows ==
    {[start_ts |-> PyNone, end_ts |-> PyNone],
     [start_ts |-> PyDateTime(1), end_ts |-> PyNone],
     [start_ts |-> PyDateTime(1), end_ts |-> PyDateTime(1)]}
MatchValues == {PyInt(1)}

\* The one row of the table without a time column.
PlainDicts == {[activity_id |-> PyInt(0), record |-> PyInt(1)]}
\* The column that the aggregates of each table are taken of.
ValueCol(t) == IF t = "test_ts" THEN ColExpr("value") ELSE ColExpr("record")

\* The identifier of a values dict: the value of each primary-key column.
PkOf(t, values_dict) ==
    [i \in 1..Len(MapperPrimaryKey(t)) |-> values_dict[MapperPrimaryKey(t)[i]]]

(***************************************************************************)
(* Initial state: a fresh database and a freshly started process.          *)
(***************************************************************************)
Init ==
    /\ rows = [t \in Tables |-> {}]
    /\ views = {}
    /\ declared = FirstDeclaration({"test_1k", "test_2pk"})
    /\ default_ts = FirstDefaults
    /\ descr = [t \in Tables |-> NoDescr]
    /\ handle = FALSE
    /\ scope = NoScope
    /\ sessions = NoSessions
    /\ last = [op |-> "start"]

(***************************************************************************)
(* Actions.                                                                *)
(***************************************************************************)
\* A new process starts, possibly from changed code: the classes are
\* defined again, the default timestamp is evaluated again, the database
\* stays as it is.
Redeploy ==
    /\ declared' \in Declarations
    /\ default_ts' \in {d \in DefaultTimestamps : d.set >= default_ts.set_if_unset}
    /\ descr' = [t \in Tables |-> NoDescr]
    /\ handle' = FALSE
    /\ last' = [op |-> "start"]
    /\ scope' = NoScope
    /\ UNCHANGED <<rows, views, sessions>>

\* DB(db_params)
Constructed(st) ==
    /\ rows' = [rows EXCEPT ![AttributesTable] = st.attrs]
    /\ views' = st.views
    /\ descr' = st.descr
    /\ handle' = (handle \/ st.raised = NoError)
    /\ last' = [op |-> "DB", raised |-> st.raised, rejected |-> st.rejected, log |-> st.log]
    /\ UNCHANGED <<declared, default_ts, scope, sessions>>

Construct == Constructed(DB_init)

\* cls.setup(db) on the ledger class, which no DB registers as a table.
Setup ==
    /\ handle
    /\ descr' = setup([descr |-> descr, views |-> views, log |-> <<>>], AttributesTable).descr
    /\ views' = setup([descr |-> descr, views |-> views, log |-> <<>>], AttributesTable).views
    /\ last' = [op |-> "setup", tbl |-> AttributesTable]
    /\ UNCHANGED <<rows, declared, default_ts, handle, scope, sessions>>

LedgerCall(op, key, value, timestamp, res) ==
    /\ rows' = [rows EXCEPT ![AttributesTable] = res.rows]
    /\ last' = [op |-> op, key |-> key, value |-> value, timestamp |-> timestamp,
                raised |-> res.raised, pre |-> Stored(Ledger, key)]
    /\ UNCHANGED <<views, declared, default_ts, descr, handle, scope, sessions>>

Set(key, value, ts) ==
    /\ handle
    /\ LedgerCall("set", key, value, ts,
                  set(Ledger, AttributesTable, descr[AttributesTable], key, value, PyDateTime(ts)))

SetNewer(key, value, ts) ==
    /\ handle
    /\ LedgerCall("set_newer", key, value, ts,
                  set_newer(Ledger, AttributesTable, descr[AttributesTable], key, value, PyDateTime(ts)))

SetIfUnset(key, value, ts) ==
    /\ handle
    /\ LedgerCall("set_if_unset", key, value, ts,
                  set_if_unset(Ledger, AttributesTable, descr[AttributesTable], key, value, PyDateTime(ts)))

\* A ledger call that omits the timestamp: cls.set(db, key, value) and the
\* like.
OmittingCall(op, key, value, res) ==
    /\ handle
    /\ rows' = [rows EXCEPT ![AttributesTable] = res.rows]
    /\ last' = [op |-> op, key |-> key, value |-> value, timestamp |-> DefaultTimestamp(op),
                omitted |-> TRUE, raised |-> res.raised, pre |-> Stored(Ledger, key)]
    /\ UNCHANGED <<views, declared, default_ts, descr, handle, scope, sessions>>

SetOmitting(key, value) ==
    OmittingCall("set", key, value,
                 set(Ledger, AttributesTable, descr[AttributesTable], key, value,
                     PyDateTime(DefaultTimestamp("set"))))

SetNewerOmitting(key, value) ==
    OmittingCall("set_newer", key, value,
                 set_newer(Ledger, AttributesTable, descr[AttributesTable], key, value,
                           PyDateTime(DefaultTimestamp("set_newer"))))

SetIfUnsetOmitting(key, value) ==
    OmittingCall("set_if_unset", key, value,
                 set_if_unset(Ledger, AttributesTable, descr[AttributesTable], key, value,
                              PyDateTime(DefaultTimestamp("set_if_unset"))))

GetType(type_func, key, default) ==
    /\ handle
    /\ LET res == get_type(Ledger, AttributesTable, type_func, key, default)
       IN last' = [op |-> "get_type", type_func |-> type_func, key |-> key, default |-> default,
                   raised |-> res.raised, ret |-> res.ret, logged |-> res.logged]
    /\ UNCHANGED <<rows, views, declared, default_ts, descr, handle, scope, sessions>>

\* A call that only reads table t.
ReadCall(op, t, args, res) ==
    /\ last' = [op |-> op, tbl |-> t, args |-> args, raised |-> res.raised, ret |-> res.ret]
    /\ UNCHANGED <<rows, views, declared, default_ts, descr, handle, scope, sessions>>

GetAll(t) ==
    /\ handle
    /\ ReadCall("get_all", t, <<>>, get_all(rows[t], t))

\* The column lists that a declaration may give a table: up to MaxCols
\* columns, each in the primary key or not and of a temporal type or not, at
\* least one of them in the primary key.
ColumnNames == <<"c1", "c2", "c3", "c4">>
ColumnTypes == {"DateTime", "Date", "Time", "Integer"}
ColumnLists ==
    {cols \in UNION {[1..n -> [primary_key : BOOLEAN, type : ColumnTypes]] : n \in 1..MaxCols} :
        \E i \in DOMAIN cols : cols[i].primary_key}
Named(cols) == [i \in DOMAIN cols |-> Col(ColumnNames[i], cols[i].primary_key, cols[i].type)]

\* cls.setup(db) on the table class that DbObject.create has just returned.
SetupTableVars ==
    /\ last.op = "create"
    /\ last' = [op |-> "setup_table_vars", cols |-> last.cols,
                descr |-> setup_table_vars_of(last.cols)]
    /\ UNCHANGED <<rows, views, declared, default_ts, descr, handle, scope, sessions>>

\* with db.managed_session() as session: the caller enters the scope,
EnterScope(t) ==
    /\ handle
    /\ scope.state # "open"
    /\ scope' = [state |-> "open", tbl |-> t, added |-> {}]
    /\ last' = [op |-> "enter", tbl |-> t]
    /\ UNCHANGED <<rows, views, declared, default_ts, descr, handle, sessions>>

\* ... the body writes through the session: session.add(cls(**values_dict)),
BodyAdd(values_dict) ==
    /\ scope.state = "open"
    /\ scope' = [scope EXCEPT !.added = @ \cup {NewInstance(scope.tbl, values_dict)}]
    /\ last' = [op |-> "session.add", tbl |-> scope.tbl, values_dict |-> values_dict]
    /\ UNCHANGED <<rows, views, declared, default_ts, descr, handle, sessions>>

\* ... and the scope exits: raised is the exception that ended the body, or
\* NoError when the body ran to its end.
ExitScope(raised) ==
    /\ scope.state = "open"
    /\ LET res == managed_session(scope.tbl, rows[scope.tbl],
                                  Session(scope.added, {}, raised, PyNone))
       IN /\ rows' = [rows EXCEPT ![scope.tbl] = res.rows]
          /\ scope' = [scope EXCEPT !.state = IF res.closed THEN "closed" ELSE "open"]
          /\ last' = [op |-> "exit", tbl |-> scope.tbl, body |-> raised, raised |-> res.raised]
    /\ UNCHANGED <<views, declared, default_ts, descr, handle, sessions>>

BodyErrors == {"ValueError"}

Window(start_ts, end_ts) == [start_ts |-> start_ts, end_ts |-> end_ts]

GetForPeriod(t, start_ts, end_ts) ==
    /\ handle
    /\ ReadCall("get_for_period", t, Window(start_ts, end_ts),
                get_for_period(rows[t], t, descr[t], start_ts, end_ts, PyNone))

RowCountForPeriod(t, start_ts, end_ts) ==
    /\ handle
    /\ ReadCall("row_count_for_period", t, Window(start_ts, end_ts),
                row_count_for_period(rows[t], t, descr[t], start_ts, end_ts))

\* get_col_avg, get_col_min, get_col_max (with ignore_le_zero) and get_col_sum
GetColFunc(t, stat_func, start_ts, end_ts, ignore_le_zero) ==
    /\ handle
    /\ stat_func = "sum" => ~ignore_le_zero
    /\ ReadCall("get_col_func", t,
                [start_ts |-> start_ts, end_ts |-> end_ts, stat_func |-> stat_func,
                 col |-> ValueCol(t), ignore_le_zero |-> ignore_le_zero],
                get_col_func(rows[t], t, descr[t], ValueCol(t), stat_func, start_ts, end_ts,
                             ignore_le_zero))

\* get_col_values of the column that the aggregates are taken of, for the
\* rows where it is 1
GetColValues(t, start_ts, end_ts, ignore_le_zero) ==
    /\ handle
    /\ ReadCall("get_col_values", t,
                [start_ts |-> start_ts, end_ts |-> end_ts, get_col |-> ValueCol(t),
                 match_col |-> ValueCol(t), match_value |-> PyInt(1),
                 ignore_le_zero |-> ignore_le_zero],
                get_col_values(rows[t], t, descr[t], ValueCol(t), ValueCol(t), PyInt(1),
                               start_ts, end_ts, ignore_le_zero))

\* get_col_sum_of_max_per_day, get_col_avg_of_max_per_day,
\* get_col_min_of_max_per_day and get_col_max_of_max_per_day
GetColFuncOfMaxPerDay(t, stat_func, start_ts, end_ts) ==
    /\ handle
    /\ ReadCall("get_col_func_of_max_per_day", t,
                [start_ts |-> start_ts, end_ts |-> end_ts, stat_func |-> stat_func,
                 col |-> ValueCol(t)],
                get_col_func_of_max_per_day(rows[t], t, descr[t], ValueCol(t), stat_func,
                                            start_ts, end_ts))

\* get_col_avg_for_value and the like: an aggregate of the value column over
\* the rows whose value compares with match_value
GetColFuncCompared(t, stat_func, cmp, match_value, w, ignore_le_zero) ==
    /\ handle
    /\ cmp = ">" => (stat_func \in {"avg", "max"} /\ ~ignore_le_zero)
    /\ cmp = "<" => stat_func # "sum"
    /\ ReadCall("get_col_func_compared", t,
                [start_ts |-> w.start_ts, end_ts |-> w.end_ts, stat_func |-> stat_func,
                 col |-> ValueCol(t), match_col |-> ValueCol(t), cmp |-> cmp,
                 match_value |-> match_value, ignore_le_zero |-> ignore_le_zero],
                get_col_func_compared(rows[t], t, descr[t], ValueCol(t), stat_func, ValueCol(t),
                                      cmp, match_value, w.start_ts, w.end_ts, ignore_le_zero))

\* get_time_col_avg, get_time_col_min, get_time_col_max, get_time_col_sum
GetTimeColFunc(t, stat_func, w) ==
    /\ handle
    /\ ReadCall("get_time_col_func", t,
                [start_ts |-> w.start_ts, end_ts |-> w.end_ts, stat_func |-> stat_func,
                 col |-> ColExpr("tod")],
                get_time_col_func(rows[t], t, descr[t], ColExpr("tod"), stat_func,
                                  w.start_ts, w.end_ts))

\* The two conversions of the time-of-day helpers applied to one time.
TimeFromSecsOfTime(value) ==
    /\ handle
    /\ last' = [op |-> "time_from_secs", tbl |-> "test_ts", args |-> [value |-> value],
                secs |-> secs_from_time(value),
                raised |-> TimeOrMin(Returned(time_from_secs(secs_from_time(value)))).raised,
                ret |-> TimeOrMin(Returned(time_from_secs(secs_from_time(value)))).ret]
    /\ UNCHANGED <<rows, views, declared, default_ts, descr, handle, scope, sessions>>

\* get_col_sum_of_max_per_day_for_value and
\* get_col_avg_of_max_per_day_for_value, matching on the value column
GetColFuncOfMaxPerDayForValue(t, stat_func, match_value, start_ts, end_ts) ==
    /\ handle
    /\ ReadCall("get_col_func_of_max_per_day_for_value", t,
                [start_ts |-> start_ts, end_ts |-> end_ts, stat_func |-> stat_func,
                 col |-> ValueCol(t), match_col |-> ValueCol(t), match_value |-> match_value],
                get_col_func_of_max_per_day_for_value(rows[t], t, descr[t], ValueCol(t), stat_func,
                                                      start_ts, end_ts, ValueCol(t), match_value))

TableCall(op, t, values_dict, flags, res) ==
    /\ rows' = [rows EXCEPT ![t] = res.rows]
    /\ last' = [op |-> op, tbl |-> t, values_dict |-> values_dict, flags |-> flags,
                raised |-> res.raised, ret |-> res.ret,
                pre |-> StoredRow(rows[t], t, values_dict)]
    /\ UNCHANGED <<views, declared, default_ts, descr, handle, scope, sessions>>

NoFlags == <<>>

Exists(t, values_dict) ==
    /\ handle
    /\ TableCall("exists", t, values_dict, NoFlags, exists(rows[t], t, descr[t], values_dict))

Add(t, values_dict) ==
    /\ handle
    /\ TableCall("add", t, values_dict, NoFlags, add(rows[t], t, values_dict))

\* cls.get(db, instance_id) with the identifier of a values dict.
Get(t, values_dict) ==
    /\ handle
    /\ TableCall("get", t, values_dict, NoFlags, get(rows[t], t, PkOf(t, values_dict), PyNone))

FindOrCreate(t, values_dict) ==
    /\ handle
    /\ TableCall("find_or_create", t, values_dict, NoFlags,
                 find_or_create(rows[t], t, descr[t], values_dict))

InsertOrUpdate(t, values_dict, ignore_none) ==
    /\ handle
    /\ TableCall("insert_or_update", t, values_dict, <<ignore_none, FALSE>>,
                 insert_or_update(rows[t], t, descr[t], values_dict, ignore_none))

\* with db.managed_session() as session: cls.s_insert_or_update(session, ...)
SInsertOrUpdate(t, values_dict, ignore_none, ignore_zero) ==
    /\ handle
    /\ TableCall("s_insert_or_update", t, values_dict, <<ignore_none, ignore_zero>>,
                 managed_session(t, rows[t],
                    s_insert_or_update(rows[t], t, descr[t], values_dict, ignore_none, ignore_zero)))

(***************************************************************************)
(* Specifications.  Spec is the version protocol across process starts;    *)
(* SpecLedger is the ledger as callers use it within one process;          *)
(* SpecSinglePk and SpecCompositePk are the row helpers on each of the     *)
(* two test tables within one process.                                     *)
(***************************************************************************)
Next ==
    \/ Redeploy
    \/ Construct

Spec == Init /\ [][Next]_vars

NextLedger ==
    \/ Construct
    \/ Setup
    \/ \E key \in LedgerKeys, value \in InputValues, ts \in Times : Set(key, value, ts)
    \/ \E key \in LedgerKeys, value \in InputValues, ts \in Times : SetNewer(key, value, ts)
    \/ \E key \in LedgerKeys, value \in InputValues, ts \in Times : SetIfUnset(key, value, ts)
    \/ \E type_func \in TypeFuncs, key \in LedgerKeys, default \in Defaults :
          GetType(type_func, key, default)

SpecLedger == Init /\ [][NextLedger]_vars

TableOps(t) ==
    \/ \E d \in ValuesDicts(t) : Exists(t, d)
    \/ \E d \in ValuesDicts(t) : Add(t, d)
    \/ \E d \in ValuesDicts(t) : Get(t, d)
    \/ \E d \in ValuesDicts(t) : FindOrCreate(t, d)
    \/ \E d \in ValuesDicts(t) : \E ignore_none \in BOOLEAN : InsertOrUpdate(t, d, ignore_none)
    \/ \E d \in ValuesDicts(t) : \E ignore_none, ignore_zero \in BOOLEAN :
          SInsertOrUpdate(t, d, ignore_none, ignore_zero)

NextSinglePk ==
    \/ Construct
    \/ TableOps("test_1k")

SpecSinglePk == Init /\ [][NextSinglePk]_vars

NextCompositePk ==
    \/ Construct
    \/ TableOps("test_2pk")

SpecCompositePk == Init /\ [][NextCompositePk]_vars

\* SpecDescriptor computes the descriptor of every declarable table: the
\* process has declared one more table class with DbObject.create.
InitDescriptor ==
    /\ rows = [t \in Tables |-> {}]
    /\ views = {}
    /\ declared = FirstDeclaration({"test_1k", "test_2pk"})
    /\ default_ts = FirstDefaults
    /\ descr = [t \in Tables |-> NoDescr]
    /\ handle = FALSE
    /\ scope = NoScope
    /\ sessions = NoSessions
    /\ last \in {[op |-> "create", cols |-> Named(cols)] : cols \in ColumnLists}

NextDescriptor == SetupTableVars

SpecDescriptor == InitDescriptor /\ [][NextDescriptor]_vars

\* SpecSession is a caller's own managed_session scopes on the single-key
\* table, one after the other.
NextSession ==
    \/ Construct
    \/ EnterScope("test_1k")
    \/ \E d \in [activity_id : Ids, record : Records] : BodyAdd(d)
    \/ ExitScope(NoError)
    \/ \E e \in BodyErrors : ExitScope(e)

SpecSession == Init /\ [][NextSession]_vars

\* SpecWindow is the windowed reads of a table with a time column and of a
\* table without one.
InitWindow ==
    /\ rows = [t \in Tables |-> {}]
    /\ views = {}
    /\ declared = FirstDeclaration({"test_1k", "test_ts"})
    /\ default_ts = FirstDefaults
    /\ descr = [t \in Tables |-> NoDescr]
    /\ handle = FALSE
    /\ scope = NoScope
    /\ sessions = NoSessions
    /\ last = [op |-> "start"]

WindowReads(t) ==
    \/ \E start_ts \in Starts, end_ts \in Ends : GetForPeriod(t, start_ts, end_ts)
    \/ \E start_ts \in Starts \ {PyNone}, end_ts \in Ends \ {PyNone} :
          RowCountForPeriod(t, start_ts, end_ts)
    \/ \E stat_func \in StatFuncs, start_ts \in Starts, end_ts \in Ends :
          GetColFunc(t, stat_func, start_ts, end_ts, FALSE)
    \/ \E start_ts \in Starts, end_ts \in Ends, ignore_le_zero \in BOOLEAN :
          GetColValues(t, start_ts, end_ts, ignore_le_zero)
    \/ \E stat_func \in StatFuncs, start_ts \in Starts \ {PyNone}, end_ts \in Ends \ {PyNone} :
          GetColFuncOfMaxPerDay(t, stat_func, start_ts, end_ts)
    \/ \E stat_func \in {"sum", "avg"}, start_ts \in Starts \ {PyNone}, end_ts \in Ends \ {PyNone} :
          GetColFuncOfMaxPerDayForValue(t, stat_func, PyInt(1), start_ts, end_ts)

NextWindow ==
    \/ Construct
    \/ \E d \in WindowDicts : Add("test_ts", d)
    \/ \E d \in PlainDicts : Add("test_1k", d)
    \/ WindowReads("test_ts")
    \/ WindowReads("test_1k")

SpecWindow == InitWindow /\ [][NextWindow]_vars

\* SpecAggregate is the aggregates of a value column and of a time-of-day
\* column over rows that the filters may all exclude.
InitAggregate ==
    /\ rows = [t \in Tables |-> {}]
    /\ views = {}
    /\ declared = FirstDeclaration({"test_ts"})
    /\ default_ts = FirstDefaults
    /\ descr = [t \in Tables |-> NoDescr]
    /\ handle = FALSE
    /\ scope = NoScope
    /\ sessions = NoSessions
    /\ last = [op |-> "start"]

NextAggregate ==
    \/ Construct
    \/ \E d \in TodDicts : Add("test_ts", d)
    \/ \E stat_func \in StatFuncs, w \in AggregateWindows, ignore_le_zero \in BOOLEAN :
          GetColFunc("test_ts", stat_func, w.start_ts, w.end_ts, ignore_le_zero)
    \/ \E stat_func \in StatFuncs, cmp \in Comparisons, match_value \in MatchValues,
          w \in AggregateWindows, ignore_le_zero \in BOOLEAN :
          GetColFuncCompared("test_ts", stat_func, cmp, match_value, w, ignore_le_zero)
    \/ \E stat_func \in StatFuncs, w \in AggregateWindows :
          GetTimeColFunc("test_ts", stat_func, w)
    \/ \E value \in TimesOfDay : TimeFromSecsOfTime(value)

SpecAggregate == InitAggregate /\ [][NextAggregate]_vars

(***************************************************************************)
(* RestClient.  A client is its protocol, host, port and base route; the   *)
(* outcome of session.get or session.post is an exception of the network   *)
(* layer or a response with a status code.                                 *)
(***************************************************************************)
RECURSIVE Joined(_)
Joined(chars) == IF chars = <<>> THEN "" ELSE Head(chars) \o Joined(Tail(chars))

RestProtocols == {"http", "https"}
Ports == {80, 443, 8080}
BaseRoutes == {"api"}
LeafRoutes == {PyNone, PyText("item")}
Clients == [protocol : RestProtocols, host : {"host"}, port : Ports, base_route : BaseRoutes]
NetworkErrors == {"ConnectionError"}
StatusCodes == {200, 204, 304, 404, 500}
IgnoreErrors == {{}, {404}}

\* RestClient.inherit
inherit(rest_client, route) == [rest_client EXCEPT !.base_route = @ \o "/" \o route]

\* RestClient.url
RestPath(client, leaf_route) ==
    IF leaf_route # PyNone THEN client.base_route \o "/" \o leaf_route.text ELSE client.base_route

url(client, leaf_route) ==
    IF (client.protocol = "https" /\ client.port = 443) \/ (client.protocol = "http" /\ client.port = 80)
    THEN PyText(client.protocol \o "://" \o client.host \o "/" \o RestPath(client, leaf_route))
    ELSE PyText(client.protocol \o "://" \o client.host \o ":" \o Joined(NatToChars(client.port))
                   \o "/" \o RestPath(client, leaf_route))

\* What session.get / session.post hand back: an exception, or a response
\* to the request of that URL.
Response(request_url, status_code) == [url |-> request_url, status_code |-> status_code, text |-> "body"]
Outcomes(request_url) ==
    {[raised |-> e, response |-> PyNone] : e \in NetworkErrors}
       \cup {[raised |-> NoError, response |-> Response(request_url, c)] : c \in StatusCodes}

\* response.raise_for_status() of the HTTP library: HTTPError for the
\* client and server error codes, nothing for any other code.
raise_for_status(response) ==
    IF 400 <= response.status_code /\ response.status_code < 600 THEN "HTTPError" ELSE NoError

RestCallException(e, exc_url, response, error) ==
    [raised |-> "RestCallException", ret |-> PyNone,
     exc |-> [inner_exception |-> e, url |-> exc_url, response |-> response, error |-> error]]

NoException == [inner_exception |-> NoError, url |-> PyNone, response |-> PyNone, error |-> <<>>]

\* RestClient.get
get_rest(client, leaf_route, outcome, ignore_errors) ==
    IF outcome.raised # NoError
    THEN RestCallException(outcome.raised, leaf_route, PyNone,
                           <<"GET", url(client, leaf_route), "failed", outcome.raised>>)
    ELSE IF raise_for_status(outcome.response) = NoError
         THEN [raised |-> NoError, ret |-> outcome.response, exc |-> NoException]
    ELSE IF outcome.response.status_code \notin ignore_errors
         THEN RestCallException(raise_for_status(outcome.response), leaf_route, outcome.response,
                                <<"GET", outcome.response.url, "failed", outcome.response.status_code,
                                  outcome.response.text>>)
    ELSE [raised |-> NoError, ret |-> PyNone, exc |-> NoException]

\* RestClient.post
post_rest(client, leaf_route, outcome) ==
    IF outcome.raised # NoError
    THEN RestCallException(outcome.raised, leaf_route, PyNone,
                           <<"POST", url(client, leaf_route), "failed", outcome.raised>>)
    ELSE IF raise_for_status(outcome.response) = NoError
         THEN [raised |-> NoError, ret |-> outcome.response, exc |-> NoException]
    ELSE RestCallException(raise_for_status(outcome.response), leaf_route, outcome.response,
                           <<"POST", outcome.response.url, "failed", outcome.response.status_code,
                             outcome.response.text>>)

RestCall(op, client, leaf_route, outcome, ignore_errors, res) ==
    /\ last' = [op |-> op, client |-> client, leaf_route |-> leaf_route,
                request_url |-> url(client, leaf_route), outcome |-> outcome,
                ignore_errors |-> ignore_errors, raised |-> res.raised, ret |-> res.ret, exc |-> res.exc]
    /\ UNCHANGED <<rows, views, declared, default_ts, descr, handle, scope, sessions>>

RestGet(leaf_route, outcome, ignore_errors) ==
    /\ "client" \in DOMAIN last
    /\ RestCall("get", last.client, leaf_route, outcome, ignore_errors,
                get_rest(last.client, leaf_route, outcome, ignore_errors))

RestPost(leaf_route, outcome) ==
    /\ "client" \in DOMAIN last
    /\ RestCall("post", last.client, leaf_route, outcome, {}, post_rest(last.client, leaf_route, outcome))

RestInherit(route) ==
    /\ "client" \in DOMAIN last
    /\ last.client.base_route \in BaseRoutes
    /\ last' = [op |-> "inherit", client |-> inherit(last.client, route)]
    /\ UNCHANGED <<rows, views, declared, default_ts, descr, handle, scope, sessions>>

\* SpecRest is the calls of one client and of the clients inherited from it.
InitRest ==
    /\ rows = [t \in Tables |-> {}]
    /\ views = {}
    /\ declared = FirstDeclaration({"test_1k"})
    /\ default_ts = FirstDefaults
    /\ descr = [t \in Tables |-> NoDescr]
    /\ handle = FALSE
    /\ scope = NoScope
    /\ sessions = NoSessions
    /\ last \in {[op |-> "RestClient", client |-> c] : c \in Clients}

NextRest ==
    \/ \E leaf_route \in LeafRoutes, ignore_errors \in IgnoreErrors :
          \E outcome \in Outcomes(url(last.client, leaf_route)) : RestGet(leaf_route, outcome, ignore_errors)
    \/ \E leaf_route \in LeafRoutes :
          \E outcome \in Outcomes(url(last.client, leaf_route)) : RestPost(leaf_route, outcome)
    \/ RestInherit("v1")

SpecRest == InitRest /\ [][NextRest]_vars

(***************************************************************************)
(* FileProcessor.  A directory is the set of its entries; an entry is a    *)
(* file or a directory of a name, modified within the last day or not,     *)
(* and a directory entry has the entries beneath it as its content.        *)
(***************************************************************************)
FileEntry(name, recent) == [name |-> name, isdir |-> FALSE, recent |-> recent, content |-> {}]
DirEntry(name, content) == [name |-> name, isdir |-> TRUE, recent |-> TRUE, content |-> content]

\* The directories of at most depth levels: in each there may be a.json (a
\* file, new or old, or a directory of that name), b.txt and the directory
\* sub.
RECURSIVE Directories(_)
Directories(depth) ==
    IF depth = 0 THEN {{}}
    ELSE {a \cup b \cup c :
            a \in {{}, {FileEntry("a.json", TRUE)}, {FileEntry("a.json", FALSE)}, {DirEntry("a.json", {})}},
            b \in {{}, {FileEntry("b.txt", TRUE)}},
            c \in {{}} \cup {{DirEntry("sub", d)} : d \in Directories(depth - 1)}}

\* os.listdir(input_dir), in the order the file system lists the names.
ListingOrder == <<"a.json", "b.txt", "sub">>
RECURSIVE ListedFrom(_, _)
ListedFrom(dir, i) ==
    IF i > Len(ListingOrder) THEN <<>>
    ELSE (IF \E e \in dir : e.name = ListingOrder[i]
          THEN <<CHOOSE e \in dir : e.name = ListingOrder[i]>> ELSE <<>>) \o ListedFrom(dir, i + 1)
listdir(dir) == ListedFrom(dir, 1)

\* re.search(file_regex, file) for the regex that the callers pass for JSON
\* files.
regex_matches_file(file) == file = "a.json"

\* __file_newer_than(file, now - one day)
file_newer_than(entry) == entry.recent

\* A scan that hands recursive on to the scan of a subdirectory.
RECURSIVE dir_to_files_deep(_, _, _, _, _)
dir_to_files_deep(input_dir, listed, file_names, latest, recursive) ==
    IF listed = <<>> THEN file_names
    ELSE IF recursive /\ Head(listed).isdir
         THEN dir_to_files_deep(input_dir, Tail(listed),
                                file_names \o dir_to_files_deep(input_dir \o "/" \o Head(listed).name,
                                                                listdir(Head(listed).content), <<>>,
                                                                latest, recursive),
                                latest, recursive)
    ELSE IF regex_matches_file(Head(listed).name) /\ (~latest \/ file_newer_than(Head(listed)))
         THEN dir_to_files_deep(input_dir, Tail(listed),
                                Append(file_names, input_dir \o "/" \o Head(listed).name), latest, recursive)
    ELSE dir_to_files_deep(input_dir, Tail(listed), file_names, latest, recursive)

\* FileProcessor.dir_to_files: the loop over os.listdir(input_dir), with the
\* entries still to visit and the file_names found so far.  The scan of a
\* subdirectory is called without recursive, which is then False.
RECURSIVE dir_to_files(_, _, _, _, _)
dir_to_files(input_dir, listed, file_names, latest, recursive) ==
    IF listed = <<>> THEN file_names
    ELSE IF recursive /\ Head(listed).isdir
         THEN dir_to_files(input_dir, Tail(listed),
                           file_names \o dir_to_files(input_dir \o "/" \o Head(listed).name,
                                                      listdir(Head(listed).content), <<>>, latest, FALSE),
                           latest, recursive)
    ELSE IF regex_matches_file(Head(listed).name) /\ (~latest \/ file_newer_than(Head(listed)))
         THEN dir_to_files(input_dir, Tail(listed),
                           Append(file_names, input_dir \o "/" \o Head(listed).name), latest, recursive)
    ELSE dir_to_files(input_dir, Tail(listed), file_names, latest, recursive)

DirToFiles(latest, recursive) ==
    /\ "dir" \in DOMAIN last
    /\ last' = [op |-> "dir_to_files", dir |-> last.dir, latest |-> latest, recursive |-> recursive,
                ret |-> dir_to_files("in", listdir(last.dir), <<>>, latest, recursive)]
    /\ UNCHANGED <<rows, views, declared, default_ts, descr, handle, scope, sessions>>

\* SpecFiles is the scans of one directory tree.
InitFiles ==
    /\ rows = [t \in Tables |-> {}]
    /\ views = {}
    /\ declared = FirstDeclaration({"test_1k"})
    /\ default_ts = FirstDefaults
    /\ descr = [t \in Tables |-> NoDescr]
    /\ handle = FALSE
    /\ scope = NoScope
    /\ sessions = NoSessions
    /\ last \in {[op |-> "listdir", dir |-> d] : d \in Directories(MaxDepth)}

NextFiles == \E latest \in BOOLEAN, recursive \in BOOLEAN : DirToFiles(latest, recursive)

SpecFiles == InitFiles /\ [][NextFiles]_vars

(***************************************************************************)
(* JsonFileProcessor.  What happens to one file of a bulk import is its    *)
(* outcome: the parse raises, the subclass's _process_json raises, or it   *)
(* returns its count of updates.                                           *)
(***************************************************************************)
FileName(i) == "f" \o Joined(NatToChars(i)) \o ".json"
FileNames(n) == [i \in 1..n |-> FileName(i)]

FileOutcome(parse, process, updates) == [parse |-> parse, process |-> process, updates |-> updates]
FileOutcomes ==
    {FileOutcome("JSONDecodeError", NoError, PyNone), FileOutcome(NoError, "KeyError", PyNone)}
       \cup {FileOutcome(NoError, NoError, u) : u \in {PyNone, PyInt(-1), PyInt(0), PyInt(2)}}

\* The outcomes of a file in a second import of the same files.
AgainOutcomes == {FileOutcome(NoError, NoError, PyInt(2)), FileOutcome(NoError, "KeyError", PyNone)}

\* The body of the try statement for one file: the exception it ends with.
FileRaised(outcome) ==
    IF outcome.parse # NoError THEN outcome.parse
    ELSE IF outcome.process # NoError THEN outcome.process
    ELSE IF outcome.updates.tag # "int" THEN "TypeError"
    ELSE NoError

\* A loop body without the try statement: the exception of a file ends the
\* import.
process_file_uncaught(st, file_name, outcome) ==
    IF FileRaised(outcome) # NoError
    THEN [st EXCEPT !.attempted = Append(@, file_name), !.raised = FileRaised(outcome)]
    ELSE IF outcome.updates.val > 0
         THEN [st EXCEPT !.attempted = Append(@, file_name), !.total_updates = @ + outcome.updates.val,
                         !.log = Append(@, <<"info", file_name>>)]
    ELSE [st EXCEPT !.attempted = Append(@, file_name), !.log = Append(@, <<"warning", file_name>>)]
\* The body of the loop of _process_files for one file.
process_file(st, file_name, outcome) ==
    IF FileRaised(outcome) # NoError
    THEN [st EXCEPT !.attempted = Append(@, file_name), !.log = Append(@, <<"error", file_name>>)]
    ELSE IF outcome.updates.val > 0
         THEN [st EXCEPT !.attempted = Append(@, file_name), !.total_updates = @ + outcome.updates.val,
                         !.log = Append(@, <<"info", file_name>>)]
    ELSE [st EXCEPT !.attempted = Append(@, file_name), !.log = Append(@, <<"warning", file_name>>)]

\* JsonFileProcessor._process_files: the loop from file i on.
RECURSIVE process_files(_, _, _, _)
process_files(st, file_names, outcomes, i) ==
    IF i > Len(file_names) \/ st.raised # NoError THEN st
    ELSE process_files(process_file(st, file_names[i], outcomes[i]), file_names, outcomes, i + 1)

\* JsonFileProcessor(file_regex, input_dir=...)
NewProcessor(n) ==
    /\ last' = [op |-> "JsonFileProcessor", file_names |-> FileNames(n), total_updates |-> 0]
    /\ UNCHANGED <<rows, views, declared, default_ts, descr, handle, scope, sessions>>

Processed(outcomes, st) ==
    /\ last' = [op |-> "process", file_names |-> last.file_names, outcomes |-> outcomes,
                before |-> last.total_updates, total_updates |-> st.total_updates,
                attempted |-> st.attempted, log |-> st.log, raised |-> st.raised]
    /\ UNCHANGED <<rows, views, declared, default_ts, descr, handle, scope, sessions>>

\* JsonFileProcessor.process
Process(outcomes) ==
    /\ last.op = "JsonFileProcessor"
    /\ Processed(outcomes,
                 process_files([total_updates |-> last.total_updates, attempted |-> <<>>, log |-> <<>>,
                                raised |-> NoError], last.file_names, outcomes, 1))

\* process() again on the same object.
ProcessAgain(outcomes) ==
    /\ last.op = "process"
    /\ last.before = 0
    /\ Processed(outcomes,
                 process_files([total_updates |-> last.total_updates, attempted |-> <<>>, log |-> <<>>,
                                raised |-> NoError], last.file_names, outcomes, 1))

\* SpecImport is the bulk imports of a processor of up to MaxFiles files.
InitImport ==
    /\ rows = [t \in Tables |-> {}]
    /\ views = {}
    /\ declared = FirstDeclaration({"test_1k"})
    /\ default_ts = FirstDefaults
    /\ descr = [t \in Tables |-> NoDescr]
    /\ handle = FALSE
    /\ scope = NoScope
    /\ sessions = NoSessions
    /\ last \in {[op |-> "JsonFileProcessor", file_names |-> FileNames(n), total_updates |-> 0] : n \in 0..MaxFiles}

NextImport ==
    \/ \E n \in 0..MaxFiles : NewProcessor(n)
    \/ \E outcomes \in [1..Len(last.file_names) -> FileOutcomes] : Process(outcomes)
    \/ \E outcomes \in [1..Len(last.file_names) -> AgainOutcomes] : ProcessAgain(outcomes)

SpecImport == InitImport /\ [][NextImport]_vars

(***************************************************************************)
(* Concurrent callers of set_newer.  Each caller runs the statements of    *)
(* set_newer in a session of its own; the database sees the read of s_get, *)
(* the read of s_get_from_dict and the flush at the end of the scope, and  *)
(* the other caller may run between any two of them.                       *)
(***************************************************************************)
RacedKey == PyText("pref")
RacedValues == {PyInt(9), PyStr(<<"k", "g">>)}
FirstPair == Pair(RacedKey, PyInt(0), PyDateTime(0))

\* with db.managed_session() as session: item = cls.s_get(session, key), and
\* the comparison of s_set_newer on that item.
IsNewer(item, timestamp) == item = PyNone \/ item.timestamp.t < timestamp.t

SetNewerRead(w, value, ts) ==
    /\ handle
    /\ sessions[w].pc = "idle"
    /\ sessions' = [sessions EXCEPT ![w] =
                       [pc |-> "compared", key |-> RacedKey, value |-> value, timestamp |-> PyDateTime(ts),
                        item |-> s_get(Ledger, AttributesTable, <<RacedKey>>, PyNone).ret,
                        newer |-> IsNewer(s_get(Ledger, AttributesTable, <<RacedKey>>, PyNone).ret,
                                          PyDateTime(ts))]]
    /\ last' = [op |-> "s_get", caller |-> w]
    /\ UNCHANGED <<rows, views, declared, default_ts, descr, handle, scope>>

\* What the query of s_get_from_dict gives a session that has read item:
\* the instance that the session already holds, as it was loaded; and, when
\* the session holds none, the row as the database shows it now, or as it
\* was at the first read when the database gives the session a snapshot.
SecondRead(item) == IF item # PyNone THEN {{item}} ELSE {{}, Ledger}

\* s_insert_or_update when the comparison passed: what the session holds
\* for the flush.
Pending(c, seen) ==
    IF c.newer
    THEN s_insert_or_update(seen, AttributesTable, descr[AttributesTable],
                            Pair(c.key, c.value, c.timestamp), TRUE, FALSE)
    ELSE Session({}, {}, NoError, PyNone)

SetNewerWrite(w) ==
    /\ sessions[w].pc = "compared"
    /\ \E seen \in SecondRead(sessions[w].item) :
          sessions' = [sessions EXCEPT ![w] =
                          [pc |-> "flushing", key |-> @.key, value |-> @.value,
                           timestamp |-> @.timestamp, item |-> @.item, newer |-> @.newer,
                           loaded |-> Stored(seen, @.key), pending |-> Pending(@, seen)]]
    /\ last' = [op |-> "s_insert_or_update", caller |-> w]
    /\ UNCHANGED <<rows, views, declared, default_ts, descr, handle, scope>>

\* The UPDATE of a changed instance sets the columns whose value is not the
\* one the instance was loaded with, on the row as it is stored now.
Merged(R, loaded, changed) ==
    {[col \in DOMAIN c |-> IF c[col] # loaded[col] THEN c[col] ELSE Stored(R, c.key)[col]] :
        c \in {x \in changed : Stored(R, x.key) # PyNone}}

Flushing(R, c) == Session(c.pending.added, Merged(R, c.loaded, c.pending.changed), c.pending.raised, PyNone)

\* A scope whose flush writes only over an older pair: comparison and write
\* in one statement.
Flushed_if_newer(R, c) ==
    IF IsNewer(Stored(R, c.key), c.timestamp)
    THEN managed_session(AttributesTable, R,
                         Session({}, IF c.newer THEN {Pair(c.key, c.value, c.timestamp)} ELSE {},
                                 NoError, PyNone))
    ELSE Commit(R, PyNone)
\* The end of the scope of set_newer: flush and commit.
Flushed(R, c) == managed_session(AttributesTable, R, Flushing(R, c))

SetNewerCommit(w) ==
    /\ sessions[w].pc = "flushing"
    /\ rows' = [rows EXCEPT ![AttributesTable] = Flushed(Ledger, sessions[w]).rows]
    /\ sessions' = [sessions EXCEPT ![w] =
                       [pc |-> "done", key |-> @.key, value |-> @.value, timestamp |-> @.timestamp,
                        item |-> @.item, newer |-> @.newer,
                        wrote |-> @.pending.added # {} \/ @.pending.changed # {},
                        raised |-> Flushed(Ledger, sessions[w]).raised]]
    /\ last' = [op |-> "commit", caller |-> w, pre |-> Stored(Ledger, sessions[w].key),
                raised |-> Flushed(Ledger, sessions[w]).raised]
    /\ UNCHANGED <<views, declared, default_ts, descr, handle, scope>>

\* The caller returns from set_newer.
SetNewerReturn(w) ==
    /\ sessions[w].pc = "done"
    /\ sessions' = [sessions EXCEPT ![w] = [pc |-> "idle"]]
    /\ last' = [op |-> "return", caller |-> w]
    /\ UNCHANGED <<rows, views, declared, default_ts, descr, handle, scope>>

\* SpecWriters is two callers of set_newer on one key of a ledger that is
\* set up, with the key stored or not.
InitWriters ==
    /\ rows \in {[t \in Tables |-> IF t = AttributesTable THEN R ELSE {}] : R \in {{}, {FirstPair}}}
    /\ views = {}
    /\ declared = FirstDeclaration({"test_1k"})
    /\ default_ts = FirstDefaults
    /\ descr = [t \in Tables |-> IF t = AttributesTable THEN setup_table_vars(t) ELSE NoDescr]
    /\ handle = TRUE
    /\ scope = NoScope
    /\ sessions = NoSessions
    /\ last = [op |-> "start"]

NextWriters ==
    \/ \E w \in Callers, value \in RacedValues, ts \in 0..MaxStamp : SetNewerRead(w, value, ts)
    \/ \E w \in Callers : SetNewerWrite(w)
    \/ \E w \in Callers : SetNewerCommit(w)
    \/ \E w \in Callers : SetNewerReturn(w)

SpecWriters == InitWriters /\ [][NextWriters]_vars

(***************************************************************************)
(* Concurrent opens of one database.  Each process runs the database       *)
(* version check of DB.__init__: set_if_unset in a session of its own (a   *)
(* read, and the flush at the end of the scope), then get_int and the      *)
(* comparison; the other process may run between any two of these.         *)
(***************************************************************************)
VersionPair(version) == Pair(DbVersionKey, PyInt(version), PyDateTime(DefaultTimestamp("set_if_unset")))

\* set_if_unset: find_or_create enters the scope and s_find_or_create reads
\* the key and adds the pair when it finds none.
OpenBootstrap(w, version) ==
    /\ sessions[w].pc = "idle"
    /\ sessions' = [sessions EXCEPT ![w] =
                       [pc |-> "adding", version |-> version,
                        absent |-> Stored(Ledger, DbVersionKey) = PyNone,
                        pending |-> s_find_or_create(Ledger, AttributesTable, descr[AttributesTable],
                                                     VersionPair(version))]]
    /\ last' = [op |-> "s_find_or_create", caller |-> w]
    /\ UNCHANGED <<rows, views, declared, default_ts, descr, handle, scope>>

\* A flush that stores an added pair over the pair of the same key.
Bootstrapped_replacing(R, c) == Commit(OtherKeys(R, DbVersionKey) \cup c.pending.added, PyNone)
\* The end of the scope of find_or_create: flush and commit.
Bootstrapped_flush(R, c) == managed_session(AttributesTable, R, c.pending)

OpenCommit(w) ==
    /\ sessions[w].pc = "adding"
    /\ rows' = [rows EXCEPT ![AttributesTable] = Bootstrapped_flush(Ledger, sessions[w]).rows]
    /\ sessions' = [sessions EXCEPT ![w] =
                       [pc |-> IF Bootstrapped_flush(Ledger, sessions[w]).raised = NoError
                               THEN "reading" ELSE "raised",
                        version |-> @.version, absent |-> @.absent, wrote |-> @.pending.added # {},
                        raised |-> Bootstrapped_flush(Ledger, sessions[w]).raised]]
    /\ last' = [op |-> "commit", caller |-> w]
    /\ UNCHANGED <<views, declared, default_ts, descr, handle, scope>>

\* return cls.get_int(db, version_key), and the comparison of version_check.
VersionRead(R, version) ==
    IF get_int(R, AttributesTable, DbVersionKey, PyNone).raised # NoError
    THEN get_int(R, AttributesTable, DbVersionKey, PyNone).raised
    ELSE IF get_int(R, AttributesTable, DbVersionKey, PyNone).ret # PyInt(version)
         THEN "RuntimeError"
    ELSE NoError

OpenCompare(w) ==
    /\ sessions[w].pc = "reading"
    /\ sessions' = [sessions EXCEPT ![w] =
                       [pc |-> IF VersionRead(Ledger, @.version) = NoError THEN "checked" ELSE "raised",
                        version |-> @.version, absent |-> @.absent, wrote |-> @.wrote,
                        raised |-> VersionRead(Ledger, @.version)]]
    /\ last' = [op |-> "version_check", caller |-> w]
    /\ UNCHANGED <<rows, views, declared, default_ts, descr, handle, scope>>

\* The process ends.
OpenExit(w) ==
    /\ sessions[w].pc \in {"checked", "raised"}
    /\ sessions' = [sessions EXCEPT ![w] = [pc |-> "idle"]]
    /\ last' = [op |-> "exit", caller |-> w]
    /\ UNCHANGED <<rows, views, declared, default_ts, descr, handle, scope>>

\* SpecOpeners is two processes that open one fresh database, each with the
\* database version that its code declares.
InitOpeners ==
    /\ rows = [t \in Tables |-> {}]
    /\ views = {}
    /\ declared = FirstDeclaration({"test_1k"})
    /\ default_ts \in DefaultTimestamps
    /\ descr = [t \in Tables |-> NoDescr]
    /\ handle = FALSE
    /\ scope = NoScope
    /\ sessions = NoSessions
    /\ last = [op |-> "start"]

NextOpeners ==
    \/ \E w \in Callers, version \in Versions : OpenBootstrap(w, version)
    \/ \E w \in Callers : OpenCommit(w)
    \/ \E w \in Callers : OpenCompare(w)
    \/ \E w \in Callers : OpenExit(w)

SpecOpeners == InitOpeners /\ [][NextOpeners]_vars

\* SpecDefaults is the ledger calls that omit the timestamp, across process
\* starts.
InitDefaults ==
    /\ rows = [t \in Tables |-> {}]
    /\ views = {}
    /\ declared = FirstDeclaration({"test_1k"})
    /\ default_ts \in DefaultTimestamps
    /\ descr = [t \in Tables |-> NoDescr]
    /\ handle = FALSE
    /\ scope = NoScope
    /\ sessions = NoSessions
    /\ last = [op |-> "start"]

\* A new process of the same code.
Restart ==
    /\ Redeploy
    /\ declared' = declared

NextDefaults ==
    \/ Restart
    \/ Construct
    \/ Setup
    \/ \E value \in InputValues : SetOmitting(PyText("pref"), value)
    \/ \E value \in InputValues : SetNewerOmitting(PyText("pref"), value)
    \/ \E value \in InputValues : SetIfUnsetOmitting(PyText("pref"), value)

SpecDefaults == InitDefaults /\ [][NextDefaults]_vars

\* SpecViews is the version protocol, across process starts, of a database
\* whose one table declares units, a view builder and a view version.
InitViews ==
    /\ rows = [t \in Tables |-> {}]
    /\ views = {}
    /\ declared = FirstDeclaration({"test_ts"})
    /\ default_ts = FirstDefaults
    /\ descr = [t \in Tables |-> NoDescr]
    /\ handle = FALSE
    /\ scope = NoScope
    /\ sessions = NoSessions
    /\ last = [op |-> "start"]

NextViews ==
    \/ Redeploy
    \/ Construct
    \/ \E t \in RegisteredSet : GetAll(t)

SpecViews == InitViews /\ [][NextViews]_vars

(***************************************************************************)
(* Properties of the version protocol (Spec).                              *)
(***************************************************************************)
\* The version a key holds, as an integer: None when the key is absent or
\* its value is not the decimal form of an integer.
StoredVersion(R, key) ==
    IF Stored(R, key) = PyNone THEN PyNone ELSE PyIntOf(Stored(R, key).value.chars).ret

DeclaredFor(key) ==
    IF key = DbVersionKey THEN declared.db
    ELSE declared.tables[CHOOSE t \in RegisteredSet : TableVersionKey(t) = key]

VersionKeys == {DbVersionKey} \cup {TableVersionKey(t) : t \in RegisteredSet}

ConstructStep == last'.op = "DB"

\* C1: for every table T with declared version V, a construction on a fresh
\* database succeeds and stores V under T's version key; a construction that
\* finds V stored under T's key does not reject T, and succeeds when every
\* key holds its declared version; a construction that finds another version
\* stored under T's key raises RuntimeError and yields no handle.
C1_TableVersionCheck ==
    [][ConstructStep =>
        /\ (Ledger = {}) =>
              /\ last'.raised = NoError /\ handle'
              /\ \A t \in RegisteredSet :
                    StoredVersion(Ledger', TableVersionKey(t)) = PyInt(declared.tables[t])
        /\ \A t \in RegisteredSet :
              StoredVersion(Ledger, TableVersionKey(t)) = PyInt(declared.tables[t])
                 => last'.rejected # TableVersionKey(t)
        /\ (\A key \in VersionKeys : StoredVersion(Ledger, key) = PyInt(DeclaredFor(key)))
              => last'.raised = NoError /\ handle'
        /\ \A t \in RegisteredSet :
              (/\ Stored(Ledger, TableVersionKey(t)) # PyNone
               /\ StoredVersion(Ledger, TableVersionKey(t)) # PyInt(declared.tables[t]))
                 => last'.raised = "RuntimeError" /\ handle' = handle
    ]_vars

\* A construction rejected the second table after the first one passed.
C1_Witness ==
    /\ last.op = "DB"
    /\ last.raised = "RuntimeError"
    /\ last.rejected = TableVersionKey("test_2pk")
    /\ StoredVersion(Ledger, TableVersionKey("test_1k")) = PyInt(declared.tables["test_1k"])
    /\ StoredVersion(Ledger, TableVersionKey("test_2pk")) \in {PyInt(v) : v \in Versions}

\* C2: a rejected construction leaves the pair of the rejected key (database
\* or table) exactly as it was, which is not the declared version, and the
\* same construction made again is rejected at the same key.
C2_MismatchKeepsLedger ==
    /\ [][(ConstructStep /\ last'.raised = "RuntimeError") =>
            /\ Stored(Ledger, last'.rejected) # PyNone
            /\ Stored(Ledger', last'.rejected) = Stored(Ledger, last'.rejected)
            /\ StoredVersion(Ledger', last'.rejected) # PyInt(DeclaredFor(last'.rejected))
            /\ last'.rejected = DbVersionKey => Ledger' = Ledger
         ]_vars
    /\ []((last.op = "DB" /\ last.raised = "RuntimeError") =>
            /\ DB_init.raised = "RuntimeError"
            /\ DB_init.rejected = last.rejected
            /\ DB_init.attrs = Ledger)

\* The database version check rejected, twice in a row, with the stored
\* database version still the one of the first construction.
C2_Witness ==
    /\ last.op = "DB"
    /\ last.raised = "RuntimeError"
    /\ last.rejected = DbVersionKey
    /\ StoredVersion(Ledger, DbVersionKey) = PyInt(TestVersion)
    /\ declared.db # TestVersion

(***************************************************************************)
(* Properties of the ledger operations (SpecLedger).                       *)
(***************************************************************************)
OtherPairs(R, key) == {r \in R : r.key # key}
CallPair == Pair(last'.key, last'.value, PyDateTime(last'.timestamp))

\* C3: set_if_unset on a key that is stored changes nothing; on an absent key
\* it stores the pair of the call and touches no other key; and of two
\* set_if_unset calls in a row on the same key, the first of which found the
\* key absent, the value and timestamp of the first remain.
C3_SetIfUnsetFirstWins ==
    [][last'.op = "set_if_unset" =>
        /\ last'.raised = NoError
        /\ Stored(Ledger, last'.key) # PyNone => Ledger' = Ledger
        /\ Stored(Ledger, last'.key) = PyNone =>
              /\ Stored(Ledger', last'.key) = CallPair
              /\ OtherPairs(Ledger', last'.key) = OtherPairs(Ledger, last'.key)
        /\ (last.op = "set_if_unset" /\ last.key = last'.key /\ last.pre = PyNone) =>
              Stored(Ledger', last'.key) = Pair(last.key, last.value, PyDateTime(last.timestamp))
    ]_vars

\* A second writer called set_if_unset with another value and another
\* timestamp, and the pair of the first writer is still the stored one.
C3_Witness ==
    /\ last.op = "set_if_unset"
    /\ last.pre # PyNone
    /\ last.pre.value # PyStrOf(last.value)
    /\ last.pre.timestamp # PyDateTime(last.timestamp)
    /\ Stored(Ledger, last.key) = last.pre

\* C4: set_newer creates the pair of an absent key; it leaves a stored pair
\* as it is when the timestamp is equal to or earlier than the stored one;
\* it replaces a stored pair only when the timestamp is strictly greater, and
\* then with the value and timestamp of the call (which it does whenever the
\* descriptor of the ledger class has been set up); no other key changes.
C4_SetNewerStrict ==
    [][last'.op = "set_newer" =>
        /\ OtherPairs(Ledger', last'.key) = OtherPairs(Ledger, last'.key)
        /\ Stored(Ledger, last'.key) = PyNone => Stored(Ledger', last'.key) = CallPair
        /\ (/\ Stored(Ledger, last'.key) # PyNone
            /\ last'.timestamp <= Stored(Ledger, last'.key).timestamp.t)
              => Stored(Ledger', last'.key) = Stored(Ledger, last'.key)
        /\ (/\ Stored(Ledger, last'.key) # PyNone
            /\ Stored(Ledger', last'.key) # Stored(Ledger, last'.key))
              => /\ last'.timestamp > Stored(Ledger, last'.key).timestamp.t
                 /\ Stored(Ledger', last'.key) = CallPair
        /\ (/\ Stored(Ledger, last'.key) # PyNone
            /\ last'.timestamp > Stored(Ledger, last'.key).timestamp.t
            /\ descr[AttributesTable].set)
              => Stored(Ledger', last'.key) = CallPair
    ]_vars

\* set_newer replaced a stored pair by one with another value and a strictly
\* greater timestamp.
C4_Witness ==
    /\ last.op = "set_newer"
    /\ last.raised = NoError
    /\ last.pre # PyNone
    /\ last.timestamp > last.pre.timestamp.t
    /\ last.pre.value # PyStrOf(last.value)
    /\ Stored(Ledger, last.key) = Pair(last.key, last.value, PyDateTime(last.timestamp))

\* C5: get_type never raises; it returns the default when the key is absent;
\* and when the stored value cannot be converted by the type function it logs
\* the failure and returns the default.
C5_GetTypeDefault ==
    last.op = "get_type" =>
        /\ last.raised = NoError
        /\ Stored(Ledger, last.key) = PyNone => (last.ret = last.default /\ ~last.logged)
        /\ (/\ Stored(Ledger, last.key) # PyNone
            /\ ApplyTypeFunc(last.type_func, Stored(Ledger, last.key).value).raised # NoError)
              => (last.ret = last.default /\ last.logged)
        /\ (/\ Stored(Ledger, last.key) # PyNone
            /\ ApplyTypeFunc(last.type_func, Stored(Ledger, last.key).value).raised = NoError)
              => (last.ret = ApplyTypeFunc(last.type_func, Stored(Ledger, last.key).value).ret
                  /\ ~last.logged)

\* get_int found the text kg under the key and returned the caller's default.
C5_Witness ==
    /\ last.op = "get_type"
    /\ last.type_func = "int"
    /\ Stored(Ledger, last.key) # PyNone
    /\ Stored(Ledger, last.key).value = PyStr(<<"k", "g">>)
    /\ last.default = PyInt(0)
    /\ last.ret = PyInt(0)
    /\ last.logged

(***************************************************************************)
(* Properties of the row helpers (SpecSinglePk, SpecCompositePk).          *)
(***************************************************************************)
ExistsNow(t, values_dict) == exists(rows[t], t, descr[t], values_dict).ret = PyBool(TRUE)
ExistsNext(t, values_dict) == exists(rows'[t], t, descr'[t], values_dict).ret = PyBool(TRUE)

\* C6: on the table with the single primary-key column activity_id, exists
\* raises nothing and is true exactly when a row with the activity_id of the
\* dict is stored; it is true once add has returned for the dict, and, no
\* helper removing rows, it stays true from then on.
C6_ExistsSinglePk ==
    /\ [](handle => \A d \in ValuesDicts("test_1k") :
            /\ exists(rows["test_1k"], "test_1k", descr["test_1k"], d).raised = NoError
            /\ ExistsNow("test_1k", d)
                  <=> \E r \in rows["test_1k"] : r.activity_id = d.activity_id)
    /\ []((last.op = "exists" /\ last.tbl = "test_1k") =>
            last.ret = PyBool(\E r \in rows["test_1k"] :
                                 r.activity_id = last.values_dict.activity_id))
    /\ [][(last'.op = "add" /\ last'.tbl = "test_1k" /\ last'.raised = NoError) =>
            (~ExistsNow("test_1k", last'.values_dict) /\ ExistsNext("test_1k", last'.values_dict))
       ]_vars
    /\ [][handle => \A d \in ValuesDicts("test_1k") :
            ExistsNow("test_1k", d) => ExistsNext("test_1k", d)]_vars

\* add has returned for one activity_id, for which exists is now true, while
\* exists is still false for the activity_id that was never added.
C6_Witness ==
    /\ last.op = "add"
    /\ last.tbl = "test_1k"
    /\ last.raised = NoError
    /\ ExistsNow("test_1k", last.values_dict)
    /\ \E d \in ValuesDicts("test_1k") : ~ExistsNow("test_1k", d)

\* C7: on the table with the composite primary key (activity_id, record),
\* exists raises nothing and is true exactly when a stored row equals the
\* dict on both primary-key columns.
C7_ExistsCompositePk ==
    /\ handle => \A d \in ValuesDicts("test_2pk") :
          /\ exists(rows["test_2pk"], "test_2pk", descr["test_2pk"], d).raised = NoError
          /\ ExistsNow("test_2pk", d)
                <=> \E r \in rows["test_2pk"] :
                       r.activity_id = d.activity_id /\ r.record = d.record
    /\ (last.op = "exists" /\ last.tbl = "test_2pk") =>
          last.ret = PyBool(\E r \in rows["test_2pk"] :
                               /\ r.activity_id = last.values_dict.activity_id
                               /\ r.record = last.values_dict.record)

\* With the row {activity_id: 0, record: 0} stored, and no other row of
\* activity_id 0, exists has returned false for {activity_id: 0, record: 1}
\* while it is true for the stored dict.
C7_Witness ==
    /\ last.op = "exists"
    /\ last.tbl = "test_2pk"
    /\ last.values_dict = [activity_id |-> PyInt(0), record |-> PyInt(1)]
    /\ last.ret = PyBool(FALSE)
    /\ [activity_id |-> PyInt(0), record |-> PyInt(0)] \in rows["test_2pk"]
    /\ ExistsNow("test_2pk", [activity_id |-> PyInt(0), record |-> PyInt(0)])

Upserts == {"insert_or_update", "s_insert_or_update"}

\* C8: find_or_create and insert_or_update treat a record as existing
\* exactly when exists is true for the same values dict: neither raises,
\* both add the record of the dict when exists is false, and neither adds a
\* row when exists is true.
C8_SameUniquenessPredicate ==
    [][last'.op \in Upserts \cup {"find_or_create"} =>
        /\ last'.raised = NoError
        /\ ExistsNow(last'.tbl, last'.values_dict) =>
              Cardinality(rows'[last'.tbl]) = Cardinality(rows[last'.tbl])
        /\ ~ExistsNow(last'.tbl, last'.values_dict) =>
              rows'[last'.tbl] = rows[last'.tbl] \cup {NewInstance(last'.tbl, last'.values_dict)}
    ]_vars

\* C9: after insert_or_update(db, d) the table holds exactly one row with the
\* primary key of d, and applying insert_or_update(db, d) again leaves the
\* table as it is.
C9_InsertOrUpdateIdempotent ==
    [][last'.op = "insert_or_update" =>
        /\ Cardinality({r \in rows'[last'.tbl] :
              SamePk(last'.tbl, r, NewInstance(last'.tbl, last'.values_dict))}) = 1
        /\ insert_or_update(rows'[last'.tbl], last'.tbl, descr'[last'.tbl],
                            last'.values_dict, last'.flags[1]).rows = rows'[last'.tbl]
    ]_vars

\* C10: when insert_or_update or s_insert_or_update has returned, get with
\* the primary key of the dict returns a record, and every field of the dict
\* that ignore_none and ignore_zero did not skip has the value the dict gave.
C10_InsertOrUpdateRoundTrip ==
    (last.op \in Upserts /\ last.raised = NoError) =>
        /\ get(rows[last.tbl], last.tbl, PkOf(last.tbl, last.values_dict), PyNone).raised = NoError
        /\ get(rows[last.tbl], last.tbl, PkOf(last.tbl, last.values_dict), PyNone).ret # PyNone
        /\ \A c \in DOMAIN last.values_dict :
              (/\ last.flags[1] => last.values_dict[c] # PyNone
               /\ last.flags[2] => last.values_dict[c] # PyInt(0))
                 => get(rows[last.tbl], last.tbl, PkOf(last.tbl, last.values_dict),
                        PyNone).ret[c] = last.values_dict[c]

\* insert_or_update found the record stored with a record value of 1 and has
\* set it to the 0 of the dict.
C10_Witness ==
    /\ last.op = "insert_or_update"
    /\ last.tbl = "test_1k"
    /\ last.raised = NoError
    /\ last.pre # PyNone
    /\ last.pre.record = PyInt(1)
    /\ last.values_dict = [activity_id |-> last.pre.activity_id, record |-> PyInt(0)]
    /\ StoredRow(rows["test_1k"], "test_1k", last.values_dict).record = PyInt(0)

(***************************************************************************)
(* Properties of table initialization and of views (SpecViews).            *)
(***************************************************************************)
\* The steps of the log that ran on table t, in the order they ran.
StepsOf(log, t) ==
    LET OnT(e) == e[2] = t
        on == SelectSeq(log, OnT)
    IN [i \in 1..Len(on) |-> on[i][1]]

\* The positions of a step of table t in the log.
Positions(log, step, t) == {i \in 1..Len(log) : log[i] = <<step, t>>}

ViewSteps == {"create_view", "view_version_check", "delete_view"}
InitOrder == <<"setup", "table_version_check", "update_table_units", "view_version_check">>

\* The steps of s that are steps of init_table proper.
OrderedSteps(s) ==
    LET InOrder(x) == x \in SeqRange(InitOrder)
    IN SelectSeq(s, InOrder)

UnitPairs(R, t) == {r \in R : \E i \in 1..Len(ColUnits(t)) : r.key = UnitsKey(t, ColUnits(t)[i][1])}

\* C12: in every construction each registered table is set up at most once,
\* and exactly once when the construction succeeds; the steps that ran on a
\* table are an initial part of: descriptor, table version check, units,
\* view check; when the table version check rejects a table, none of its
\* unit keys is written and its view is neither dropped nor otherwise
\* touched; and every view-related step on a table comes after that table's
\* version check, which has passed.
C12_InitOrder ==
    [][ConstructStep => \A t \in RegisteredSet :
        /\ Cardinality(Positions(last'.log, "setup", t)) <= 1
        /\ last'.raised = NoError => Cardinality(Positions(last'.log, "setup", t)) = 1
        /\ Positions(last'.log, "setup", t) # {} => descr'[t].set
        /\ \E n \in 0..Len(InitOrder) :
              OrderedSteps(StepsOf(last'.log, t)) = SubSeq(InitOrder, 1, n)
        /\ last'.rejected = TableVersionKey(t) =>
              /\ UnitPairs(Ledger', t) = UnitPairs(Ledger, t)
              /\ Positions(last'.log, "delete_view", t) = {}
              /\ get_default_view_name(t) \in views => get_default_view_name(t) \in views'
        /\ \A i \in 1..Len(last'.log) :
              (last'.log[i][2] = t /\ last'.log[i][1] \in ViewSteps) =>
                 /\ \E j \in 1..(i - 1) : last'.log[j] = <<"table_version_check", t>>
                 /\ last'.rejected # TableVersionKey(t)
    ]_vars

ViewOf(t) == get_default_view_name(t)

\* Whether a construction gets as far as the view check of table t: no
\* version key of the database or its tables holds another version than
\* the declared one.
NoRejection ==
    \A key \in VersionKeys : StoredVersion(Ledger, key) \in {PyNone, PyInt(DeclaredFor(key))}

ViewMismatch(t) ==
    /\ DeclaredViewVersion(t) # PyNone
    /\ Stored(Ledger, ViewVersionKey(t)) # PyNone
    /\ StoredVersion(Ledger, ViewVersionKey(t)) # DeclaredViewVersion(t)

\* C13: a construction that no table or database version rejects and that
\* finds, for a table with a declared view version, another view version
\* stored, ends without raising, yields a handle and leaves the table's view
\* absent; when the table declares no view version, or the stored view
\* version is the declared one or absent, the construction does not drop the
\* view: the view exists afterwards.
C13_ViewMismatchRecoverable ==
    [][(ConstructStep /\ NoRejection) => \A t \in RegisteredSet \cap ViewTables :
        /\ last'.raised = NoError /\ handle'
        /\ ViewMismatch(t) =>
              /\ ViewOf(t) \notin views'
              /\ Positions(last'.log, "delete_view", t) # {}
        /\ ~ViewMismatch(t) =>
              /\ Positions(last'.log, "delete_view", t) = {}
              /\ ViewOf(t) \in views'
    ]_vars

\* A construction found view version 9 stored where the code declares 10,
\* dropped the view that existed, and succeeded.
C13_Witness ==
    /\ last.op = "DB"
    /\ last.raised = NoError
    /\ handle
    /\ declared.views["test_ts"] = PyInt(TestVersion + 1)
    /\ StoredVersion(Ledger, ViewVersionKey("test_ts")) = PyInt(TestVersion)
    /\ Positions(last.log, "delete_view", "test_ts") # {}
    /\ ViewOf("test_ts") \notin views

ReadOps == {"get_all"}

\* C14: a read of a table that has a view builder leaves the table's view
\* existing; in particular the first read after a construction that dropped
\* the view recreates it.
C14_ReadRecreatesView ==
    [][(last'.op \in ReadOps /\ last'.tbl \in ViewTables) => ViewOf(last'.tbl) \in views']_vars

(***************************************************************************)
(* Properties of the scoped session (SpecSession).                         *)
(***************************************************************************)
\* Whether the engine accepts the pending instances: none has the primary
\* key of a stored row.
Accepted(t, R, added) == \A a \in added : \A r \in R : ~SamePk(t, a, r)

TemporalIn(cols, pk) ==
    {i \in 1..Len(cols) : IsTemporal(cols[i]) /\ cols[i].primary_key = pk}
FirstOf(S) == CHOOSE i \in S : \A j \in S : i <= j
LastOf(S) == CHOOSE i \in S : \A j \in S : j <= i

\* C15 as claimed: the time column is the first temporal column outside the
\* primary key; a temporal primary-key column is chosen only when there is
\* no temporal column outside the primary key; without a temporal column the
\* time column is None.
C15_TimeColumn ==
    last.op = "setup_table_vars" =>
        /\ TemporalIn(last.cols, FALSE) # {} =>
              last.descr.time_col_name = PyText(last.cols[FirstOf(TemporalIn(last.cols, FALSE))].name)
        /\ (TemporalIn(last.cols, FALSE) = {} /\ TemporalIn(last.cols, TRUE) # {}) =>
              last.descr.time_col_name \in {PyText(last.cols[i].name) : i \in TemporalIn(last.cols, TRUE)}
        /\ (TemporalIn(last.cols, FALSE) = {} /\ TemporalIn(last.cols, TRUE) = {}) =>
              last.descr.time_col_name = PyNone

\* C15 as amended: the time column is the last temporal column of the
\* primary key; when the primary key has no temporal column it is the first
\* temporal column of the table; without a temporal column it is None.
C15_TimeColumnAmended ==
    last.op = "setup_table_vars" =>
        /\ TemporalIn(last.cols, TRUE) # {} =>
              last.descr.time_col_name = PyText(last.cols[LastOf(TemporalIn(last.cols, TRUE))].name)
        /\ (TemporalIn(last.cols, TRUE) = {} /\ TemporalIn(last.cols, FALSE) # {}) =>
              last.descr.time_col_name = PyText(last.cols[FirstOf(TemporalIn(last.cols, FALSE))].name)
        /\ (TemporalIn(last.cols, FALSE) = {} /\ TemporalIn(last.cols, TRUE) = {}) =>
              last.descr.time_col_name = PyNone

\* A table whose first column is temporal and outside the primary key and
\* whose second column is temporal and in the primary key: the second one is
\* the time column.
C15_Witness ==
    /\ last.op = "setup_table_vars"
    /\ Len(last.cols) >= 2
    /\ IsTemporal(last.cols[1]) /\ ~last.cols[1].primary_key
    /\ IsTemporal(last.cols[2]) /\ last.cols[2].primary_key
    /\ last.descr.time_col_name = PyText(last.cols[2].name)

(***************************************************************************)
(* Properties of the windowed reads (SpecWindow).                          *)
(***************************************************************************)
PeriodOps == {"get_for_period", "row_count_for_period", "get_col_values",
              "get_col_func_of_max_per_day", "get_col_func_of_max_per_day_for_value"}
WindowOps == PeriodOps \cup {"get_col_func"}
Bounded(args) == args.start_ts # PyNone \/ args.end_ts # PyNone

\* An error of the library's own that names what is missing.
ExplicitErrors == {"DbException"}

\* C16: a read over a period, or an aggregate with a window, on a table
\* whose descriptor has no time column raises an error of the library that
\* names the missing time column: it neither returns nor raises the
\* interpreter's AttributeError.
C16_NoTimeColumnFailsFast ==
    (/\ last.op \in WindowOps
     /\ ~HasTimeCol(descr[last.tbl])
     /\ last.op \in PeriodOps \/ Bounded(last.args))
        => last.raised \in ExplicitErrors

\* The rows of R whose time is in [start, end), a bound of None not bounding.
HalfOpen(R, col, args) ==
    {r \in R : /\ args.start_ts # PyNone => (r[col] # PyNone /\ args.start_ts.t <= r[col].t)
               /\ args.end_ts # PyNone => (r[col] # PyNone /\ r[col].t < args.end_ts.t)}

Max(S) == CHOOSE x \in S : \A y \in S : x >= y
Min(S) == CHOOSE x \in S : \A y \in S : x <= y

\* The aggregate that a helper is named after, of the maxima per day of the
\* values of the rows in [start, end).
DaysIn(S) == {r.timestamp.t \div TicksPerDay : r \in S}
MaximaPerDay(S) ==
    [day \in DaysIn(S) |-> Max({r.value.val : r \in {q \in S : q.timestamp.t \div TicksPerDay = day}})]
NamedAggregate(stat_func, maxima) ==
    IF DOMAIN maxima = {} THEN PyNone
    ELSE CASE stat_func = "sum" -> PyInt(SumOf([d \in DOMAIN maxima |-> PyInt(maxima[d])], DOMAIN maxima))
           [] stat_func = "avg" -> PyRatio(SumOf([d \in DOMAIN maxima |-> PyInt(maxima[d])], DOMAIN maxima),
                                           Cardinality(DOMAIN maxima))
           [] stat_func = "min" -> PyInt(Min({maxima[d] : d \in DOMAIN maxima}))
           [] stat_func = "max" -> PyInt(Max({maxima[d] : d \in DOMAIN maxima}))

OnTimeTable == last.op \in WindowOps /\ last.tbl = "test_ts"

\* C17: on the table with the time column every windowed read returns
\* without an error what the rows of [start, end) give, a bound of None not
\* bounding: get_for_period those rows, each once, row_count_for_period
\* their number, an aggregate the aggregate of their values, the sum of
\* the maxima per day the sum of the maxima of their days, get_col_values
\* asked to ignore values up to zero the values of those of them that
\* match; with start < end a stored row at start is among the rows
\* returned and a stored row at end is not.
C17_HalfOpenWindow ==
    OnTimeTable =>
        /\ last.raised = NoError
        /\ last.op = "get_for_period" =>
              /\ SeqRange(last.ret) = HalfOpen(rows["test_ts"], "timestamp", last.args)
              /\ Len(last.ret) = Cardinality(HalfOpen(rows["test_ts"], "timestamp", last.args))
              /\ (Bounded(last.args) /\ last.args.start_ts # PyNone /\ last.args.end_ts # PyNone
                  /\ last.args.start_ts.t < last.args.end_ts.t) =>
                    \A r \in rows["test_ts"] :
                       /\ r.timestamp = last.args.start_ts => r \in SeqRange(last.ret)
                       /\ r.timestamp = last.args.end_ts => r \notin SeqRange(last.ret)
        /\ last.op = "row_count_for_period" =>
              last.ret = PyInt(Cardinality(HalfOpen(rows["test_ts"], "timestamp", last.args)))
        /\ last.op = "get_col_func" =>
              last.ret = Aggregate(last.args.stat_func,
                                   [r \in HalfOpen(rows["test_ts"], "timestamp", last.args) |-> r.value])
        /\ (last.op = "get_col_func_of_max_per_day" /\ last.args.stat_func = "sum") =>
              last.ret = NamedAggregate("sum", MaximaPerDay(HalfOpen(rows["test_ts"], "timestamp",
                                                                     last.args)))
        /\ (last.op = "get_col_values" /\ last.args.ignore_le_zero) =>
              /\ Len(last.ret) = Cardinality({r \in HalfOpen(rows["test_ts"], "timestamp", last.args) :
                                                r.value = last.args.match_value})
              /\ \A i \in 1..Len(last.ret) : last.ret[i] = last.args.match_value

\* get_for_period(1, MaxStamp) on a table with rows at both bounds returned
\* the row at the start and not the row at the end.
C17_Witness ==
    /\ last.op = "get_for_period"
    /\ last.tbl = "test_ts"
    /\ last.args = Window(PyDateTime(1), PyDateTime(MaxStamp))
    /\ \E r \in rows["test_ts"] : r.timestamp = PyDateTime(1) /\ r \in SeqRange(last.ret)
    /\ \E r \in rows["test_ts"] : r.timestamp = PyDateTime(MaxStamp) /\ r \notin SeqRange(last.ret)

\* C20: get_col_avg_of_max_per_day, get_col_min_of_max_per_day,
\* get_col_max_of_max_per_day and get_col_sum_of_max_per_day return the
\* average, the minimum, the maximum and the sum of the maxima per day of
\* the column over the rows in [start, end).
C20_NamedOuterAggregate ==
    (last.op = "get_col_func_of_max_per_day" /\ last.tbl = "test_ts") =>
        /\ last.raised = NoError
        /\ last.ret = NamedAggregate(last.args.stat_func,
                                     MaximaPerDay(HalfOpen(rows["test_ts"], "timestamp", last.args)))

(***************************************************************************)
(* Properties of the aggregates (SpecAggregate).                           *)
(***************************************************************************)
ColumnAggregates == {"get_col_func", "get_col_func_compared"}

\* The rows that pass the filters that the caller of a column aggregate
\* gave: the window, the match or threshold, values above zero.
Matching(r, args) ==
    "cmp" \in DOMAIN args =>
        CASE args.cmp = "==" -> r.value.val = args.match_value.val
          [] args.cmp = ">" -> r.value.val > args.match_value.val
          [] args.cmp = "<" -> r.value.val < args.match_value.val
PassingRows(R, args) ==
    {r \in HalfOpen(R, "timestamp", args) :
        /\ Matching(r, args)
        /\ args.ignore_le_zero => r.value.val > 0}

\* The rows that a time-of-day helper aggregates over: those of the window
\* with a time of day after midnight.
TimedRows(R, args) ==
    {r \in HalfOpen(R, "timestamp", args) : r.tod # PyNone /\ r.tod # PyTime(0, 0, 0)}

\* C18: an aggregate helper (of a column, with or without a match
\* value or a threshold, or of a time of day) returns None when no row
\* passes its filters.
C18_EmptyAggregateIsNone ==
    /\ (last.op \in ColumnAggregates /\ PassingRows(rows["test_ts"], last.args) = {}) =>
          (last.raised = NoError /\ last.ret = PyNone)
    /\ (last.op = "get_time_col_func" /\ TimedRows(rows["test_ts"], last.args) = {}) =>
          (last.raised = NoError /\ last.ret = PyNone)

\* C18 (amended): a column aggregate helper, with or without a match value
\* or a threshold, returns None when no row passes its filters; a
\* time-of-day helper then returns midnight, 00:00:00.
C18_EmptyAggregateAmended ==
    /\ (last.op \in ColumnAggregates /\ PassingRows(rows["test_ts"], last.args) = {}) =>
          (last.raised = NoError /\ last.ret = PyNone)
    /\ (last.op = "get_time_col_func" /\ TimedRows(rows["test_ts"], last.args) = {}) =>
          (last.raised = NoError /\ last.ret = PyTime(0, 0, 0))

\* A time-of-day helper ran on a table whose rows the window excludes.
C18_Witness ==
    /\ last.op = "get_time_col_func"
    /\ rows["test_ts"] # {}
    /\ \A r \in rows["test_ts"] : r.tod \notin {PyNone, PyTime(0, 0, 0)}
    /\ TimedRows(rows["test_ts"], last.args) = {}
    /\ last.ret = PyTime(0, 0, 0)

\* C19: a time of day converted to seconds since midnight and back is the
\* same time of day; and the minimum or the maximum time of day over
\* exactly one row with a time of day is the time of day of that row.
C19_TimeRoundTrip ==
    /\ last.op = "time_from_secs" =>
          /\ last.secs = PyInt((last.args.value.h * 3600) + (last.args.value.m * 60)
                               + last.args.value.s)
          /\ last.raised = NoError
          /\ last.ret = last.args.value
    /\ (/\ last.op = "get_time_col_func"
        /\ last.args.stat_func \in {"min", "max"}
        /\ Cardinality(HalfOpen(rows["test_ts"], "timestamp", last.args)) = 1) =>
          \A r \in HalfOpen(rows["test_ts"], "timestamp", last.args) :
             r.tod # PyNone => (last.raised = NoError /\ last.ret = r.tod)

\* The maximum time of day of a table whose only row is of the last second
\* of the day is that second.
C19_Witness ==
    /\ last.op = "get_time_col_func"
    /\ last.args.stat_func = "max"
    /\ Cardinality(rows["test_ts"]) = 1
    /\ Cardinality(HalfOpen(rows["test_ts"], "timestamp", last.args)) = 1
    /\ last.ret = PyTime(23, 59, 59)

\* The rows of [start, end) whose match column holds the match value.
MatchedInWindow(R, args) == {r \in HalfOpen(R, "timestamp", args) : r.value = args.match_value}

\* C21: get_col_sum_of_max_per_day_for_value and
\* get_col_avg_of_max_per_day_for_value return the sum and the average of
\* the maxima per day over the rows of the window whose match column holds
\* the match value; no other row takes part.
C21_PerDayForValueMatches ==
    (last.op = "get_col_func_of_max_per_day_for_value" /\ last.tbl = "test_ts") =>
        /\ last.raised = NoError
        /\ last.ret = NamedAggregate(last.args.stat_func,
                                     MaximaPerDay(MatchedInWindow(rows["test_ts"], last.args)))

\* C22: get_col_values with ignore_le_zero left False returns the get_col
\* value of each row of the window whose match column holds the match
\* value, and of no other row; it returns a value whenever there is such a
\* row.
C22_GetColValuesDefault ==
    (last.op = "get_col_values" /\ last.tbl = "test_ts" /\ ~last.args.ignore_le_zero) =>
        /\ last.raised = NoError
        /\ Len(last.ret) = Cardinality(MatchedInWindow(rows["test_ts"], last.args))
        /\ \A i \in 1..Len(last.ret) : last.ret[i] = last.args.match_value
        /\ MatchedInWindow(rows["test_ts"], last.args) # {} => last.ret # <<>>

(***************************************************************************)
(* Properties of the default timestamps (SpecDefaults).                    *)
(***************************************************************************)
OmittedCall == last'.op \in {"set", "set_newer", "set_if_unset"} /\ last'.omitted
DefaultsOfProcess ==
    {DefaultTimestamp("set"), DefaultTimestamp("set_newer"), DefaultTimestamp("set_if_unset")}

DbMismatch ==
    /\ Stored(Ledger, DbVersionKey) # PyNone
    /\ StoredVersion(Ledger, DbVersionKey) # PyInt(declared.db)

\* C26: a construction that finds another database version stored than the
\* declared one raises RuntimeError at the database version key with no
\* step of any table run: no descriptor is computed, no pair of the ledger
\* is written, no view is created or dropped and no handle is yielded; and
\* in every construction in which a step of a table ran, the stored
\* database version is the declared one.
C26_DbCheckBeforeTables ==
    [][ConstructStep =>
        /\ DbMismatch =>
              /\ last'.raised = "RuntimeError"
              /\ last'.rejected = DbVersionKey
              /\ last'.log = <<>>
              /\ descr' = descr
              /\ Ledger' = Ledger
              /\ views' = views
              /\ handle' = handle
        /\ last'.log # <<>> =>
              /\ ~DbMismatch
              /\ StoredVersion(Ledger', DbVersionKey) = PyInt(declared.db)
    ]_vars

\* A new process whose code declares another database version constructed
\* on a database that has the view and the unit key of an earlier version:
\* it was rejected with no descriptor computed and the view still there.
C26_Witness ==
    /\ last.op = "DB"
    /\ last.raised = "RuntimeError"
    /\ last.rejected = DbVersionKey
    /\ last.log = <<>>
    /\ ~handle
    /\ \A t \in RegisteredSet : ~descr[t].set
    /\ ViewOf("test_ts") \in views
    /\ UnitPairs(Ledger, "test_ts") # {}
    /\ declared.tables["test_ts"] # TestVersion

(***************************************************************************)
(* Properties of a view version mismatch over time (SpecViews).            *)
(***************************************************************************)
CreatedThenDropped(log, t) ==
    /\ Positions(log, "create_view", t) # {}
    /\ Positions(log, "delete_view", t) # {}
    /\ \A i \in Positions(log, "create_view", t) :
          \A j \in Positions(log, "delete_view", t) : i < j

\* C29: a stored view version is never written again; a construction that
\* no table or database version rejects and that finds another view version
\* stored than the declared one leaves the stored pair as it was, creates
\* the view and then drops it, and ends with no view; and after such a
\* construction, the same construction made again drops the view again.
C29_ViewMismatchNeverHeals ==
    /\ [][\A t \in RegisteredSet \cap ViewTables :
            Stored(Ledger, ViewVersionKey(t)) # PyNone
               => Stored(Ledger', ViewVersionKey(t)) = Stored(Ledger, ViewVersionKey(t))]_vars
    /\ [][(ConstructStep /\ NoRejection) => \A t \in RegisteredSet \cap ViewTables :
            ViewMismatch(t) =>
               /\ Stored(Ledger', ViewVersionKey(t)) = Stored(Ledger, ViewVersionKey(t))
               /\ StoredVersion(Ledger', ViewVersionKey(t)) # DeclaredViewVersion(t)
               /\ CreatedThenDropped(last'.log, t)
               /\ ViewOf(t) \notin views'
         ]_vars
    /\ [](\A t \in RegisteredSet \cap ViewTables :
            (last.op = "DB" /\ last.raised = NoError /\ Positions(last.log, "delete_view", t) # {}) =>
               /\ DB_init.raised = NoError
               /\ DB_init.attrs = Ledger
               /\ CreatedThenDropped(DB_init.log, t)
               /\ ViewOf(t) \notin DB_init.views)

\* A construction found no view, created it and dropped it, because view
\* version 9 is stored where the code declares 10; the next construction
\* will do the same.
C29_Witness ==
    /\ last.op = "DB"
    /\ last.raised = NoError
    /\ CreatedThenDropped(last.log, "test_ts")
    /\ ViewOf("test_ts") \notin views
    /\ declared.views["test_ts"] = PyInt(TestVersion + 1)
    /\ StoredVersion(Ledger, ViewVersionKey("test_ts")) = PyInt(TestVersion)
    /\ CreatedThenDropped(DB_init.log, "test_ts")
    /\ descr["test_ts"].set

(***************************************************************************)
(* Properties of concurrent callers of set_newer (SpecWriters).            *)
(***************************************************************************)
CommitOf(w) == last'.op = "commit" /\ last'.caller = w

\* C27: a caller of set_newer writes only when its own comparison passed on
\* the pair it read; the commit of a caller that read a stored pair and
\* whose comparison passed raises nothing and leaves the caller's timestamp
\* stored, whatever timestamp is stored at that moment, so that a commit
\* with an older timestamp replaces a newer pair that another caller stored
\* since the read; and the commit of a caller that adds the pair stores it
\* when the key is still absent and raises IntegrityError, leaving the
\* ledger as it is, when another caller stored the key since.
C27_SetNewerNotAtomic ==
    /\ [](\A w \in Callers :
            (sessions[w].pc = "done" /\ sessions[w].wrote) =>
               IsNewer(sessions[w].item, sessions[w].timestamp))
    /\ [][\A w \in Callers :
            (CommitOf(w) /\ sessions[w].item # PyNone /\ sessions[w].newer) =>
               /\ sessions'[w].raised = NoError
               /\ Stored(Ledger', RacedKey).timestamp = sessions[w].timestamp
               /\ PyStrOf(sessions[w].value) # sessions[w].item.value
                     => Stored(Ledger', RacedKey) = Pair(RacedKey, sessions[w].value, sessions[w].timestamp)
         ]_vars
    /\ [][\A w \in Callers :
            (CommitOf(w) /\ sessions[w].pending.added # {}) =>
               IF Stored(Ledger, RacedKey) = PyNone
               THEN /\ sessions'[w].raised = NoError
                    /\ Stored(Ledger', RacedKey) = Pair(RacedKey, sessions[w].value, sessions[w].timestamp)
               ELSE /\ sessions'[w].raised = "IntegrityError"
                    /\ Ledger' = Ledger
         ]_vars

\* Both callers read the pair of timestamp 0, both comparisons passed, the
\* caller with timestamp 2 committed and then the caller with timestamp 1:
\* the pair of timestamp 1 is stored and neither call raised.
C27_Witness ==
    /\ \A w \in Callers :
          /\ sessions[w].pc = "done"
          /\ sessions[w].item = FirstPair
          /\ sessions[w].newer /\ sessions[w].wrote
          /\ sessions[w].raised = NoError
    /\ sessions["w1"].timestamp = PyDateTime(1)
    /\ sessions["w2"].timestamp = PyDateTime(2)
    /\ sessions["w1"].value # sessions["w2"].value
    /\ last.op = "commit" /\ last.caller = "w1"
    /\ last.pre = Pair(RacedKey, sessions["w2"].value, PyDateTime(2))
    /\ Stored(Ledger, RacedKey) = Pair(RacedKey, sessions["w1"].value, PyDateTime(1))

(***************************************************************************)
(* Properties of concurrent opens (SpecOpeners).                           *)
(***************************************************************************)
PastCommit(w) == sessions[w].pc \in {"reading", "checked", "raised"}
Completed(w) == sessions[w].pc = "checked"
BothWrote ==
    \A w \in Callers : PastCommit(w) /\ sessions[w].absent /\ sessions[w].wrote
BothEnded == \A w \in Callers : sessions[w].pc \in {"checked", "raised"}
Inconsistent ==
    \/ \E w \in Callers :
          Completed(w) /\ StoredVersion(Ledger, DbVersionKey) # PyInt(sessions[w].version)
    \/ /\ \A w \in Callers : Completed(w)
       /\ sessions["w1"].version # sessions["w2"].version

\* C28: when two processes that declare different database versions have
\* both found the version key absent in set_if_unset and both written, and
\* both have ended their version check, the versions bootstrapped are
\* inconsistent: a process has completed its check although the stored
\* version is not the one it declares, or both have completed.
C28_ConcurrentOpensInconsistent ==
    (BothWrote /\ BothEnded /\ sessions["w1"].version # sessions["w2"].version) => Inconsistent

\* C28 (amended): two processes may both find the version key absent and
\* both add it, but the key is the primary key of the ledger: the flush of
\* the second raises IntegrityError and leaves the pair of the first, so
\* that no process ever completes its version check with another version
\* stored than the one it declares, and no two processes that declare
\* different versions both complete.
C28_ConcurrentOpensAmended ==
    /\ [](\A w \in Callers :
            Completed(w) => StoredVersion(Ledger, DbVersionKey) = PyInt(sessions[w].version))
    /\ []((\A w \in Callers : Completed(w)) => sessions["w1"].version = sessions["w2"].version)
    /\ [](BothWrote => \E w \in Callers :
            /\ sessions[w].raised = "IntegrityError"
            /\ \A v \in Callers \ {w} : sessions[v].raised # "IntegrityError")
    /\ [][\A w \in Callers :
            (last'.op = "commit" /\ last'.caller = w /\ sessions'[w].raised = "IntegrityError")
               => Ledger' = Ledger /\ Stored(Ledger, DbVersionKey) # PyNone]_vars

\* Both processes found the key absent and added it; the first completed
\* its check with its own version stored, the flush of the second, which
\* declares another version, raised IntegrityError.
C28_Witness ==
    /\ \A w \in Callers : sessions[w].pc \in {"checked", "raised"} /\ sessions[w].absent /\ sessions[w].wrote
    /\ sessions["w1"].pc = "checked"
    /\ sessions["w2"].raised = "IntegrityError"
    /\ sessions["w1"].version # sessions["w2"].version
    /\ StoredVersion(Ledger, DbVersionKey) = PyInt(sessions["w1"].version)

(***************************************************************************)
(* Properties of the REST client (SpecRest).                               *)
(***************************************************************************)
RestCalled == last.op \in {"get", "post"}
NetworkFailure == last.outcome.raised # NoError
Non2xx ==
    /\ last.outcome.raised = NoError
    /\ ~(200 <= last.outcome.response.status_code /\ last.outcome.response.status_code < 300)

\* C23: a GET or POST that meets a network failure or a response whose
\* status is not 2xx raises RestCallException, which carries the URL of
\* the request, the response when one was received (None otherwise) and a
\* message that is not empty; no such call returns normally.
C23_FailedCallRaises ==
    (RestCalled /\ (NetworkFailure \/ Non2xx)) =>
        /\ last.raised = "RestCallException"
        /\ last.exc.url = last.request_url
        /\ last.exc.response = last.outcome.response
        /\ last.exc.error # <<>>

(***************************************************************************)
(* Properties of the directory scan (SpecFiles).                           *)
(***************************************************************************)
\* The files at any depth beneath a directory, each with its path.
RECURSIVE FilesBeneath(_, _)
FilesBeneath(path, dir) ==
    {[path |-> path \o "/" \o e.name, name |-> e.name, recent |-> e.recent] : e \in {x \in dir : ~x.isdir}}
       \cup UNION {FilesBeneath(path \o "/" \o e.name, e.content) : e \in {x \in dir : x.isdir}}

Wanted(dir, latest) ==
    {f.path : f \in {g \in FilesBeneath("in", dir) : regex_matches_file(g.name) /\ (latest => g.recent)}}

\* C24: dir_to_files with recursive=True returns the paths of exactly the
\* files, at any depth beneath input_dir, whose name matches the regex and,
\* when latest is set, that were modified within the last day.
C24_RecursiveScanAnyDepth ==
    (last.op = "dir_to_files" /\ last.recursive) => SeqRange(last.ret) = Wanted(last.dir, last.latest)

(***************************************************************************)
(* Properties of the bulk import (SpecImport).                             *)
(***************************************************************************)
Succeeded(outcome) ==
    outcome.parse = NoError /\ outcome.process = NoError /\ outcome.updates.tag = "int"

RECURSIVE PositiveUpdates(_, _)
PositiveUpdates(outcomes, n) ==
    IF n = 0 THEN 0
    ELSE PositiveUpdates(outcomes, n - 1)
           + (IF Succeeded(outcomes[n]) /\ outcomes[n].updates.val > 0 THEN outcomes[n].updates.val ELSE 0)

\* C25: process() raises nothing whatever happens to its files; it attempts
\* every file of file_names, in order; every file whose parse or processing
\* failed is logged as an error and nothing else; and total_updates grows
\* by the sum of the positive update counts of the files that succeeded,
\* which is total_updates itself in the first import of a processor.
C25_ImportSkipsFailures ==
    last.op = "process" =>
        /\ last.raised = NoError
        /\ last.attempted = last.file_names
        /\ Len(last.log) = Len(last.file_names)
        /\ \A i \in 1..Len(last.file_names) :
              /\ last.log[i][2] = last.file_names[i]
              /\ last.log[i][1] = "error" <=> ~Succeeded(last.outcomes[i])
        /\ last.total_updates = last.before + PositiveUpdates(last.outcomes, Len(last.file_names))

\* An import of three files: the parse of the first failed, the second
\* returned 2 and the third, after it, 2 again; total_updates is 4.
C25_Witness ==
    /\ last.op = "process"
    /\ Len(last.file_names) >= 3
    /\ last.before = 0
    /\ last.outcomes[1].parse # NoError
    /\ last.outcomes[2].updates = PyInt(2)
    /\ last.outcomes[3].updates = PyInt(2)
    /\ last.attempted = last.file_names
    /\ last.total_updates = 4
    /\ last.raised = NoError

====
